---- MODULE Spec2Model ----
(***************************************************************************)
(* Model of the intent-understanding and function-dispatch pipeline of the *)
(* todo assistant: the call-notation parser (parse_tool.js), the NLU       *)
(* engine (nlu.js), the tool registry (available_tools.js) and the shell   *)
(* loop / dispatcher (index.js).                                           *)
(*                                                                         *)
(* Texts are TLA+ strings; a character is a string of length 1.            *)
(***************************************************************************)
EXTENDS Integers, Sequences, FiniteSets, TLC

(***************************************************************************)
(* Bounds of the model.                                                    *)
(***************************************************************************)
\* number of utterances the shell loop accepts in one run
MaxUtterances == 2

(***************************************************************************)
(* Characters and the JavaScript string primitives the code uses.          *)
(***************************************************************************)
LowerLetters == {"a","b","c","d","e","f","g","h","i","j","k","l","m",
                 "n","o","p","q","r","s","t","u","v","w","x","y","z"}
UpperLetters == {"A","B","C","D","E","F","G","H","I","J","K","L","M",
                 "N","O","P","Q","R","S","T","U","V","W","X","Y","Z"}
Digits == {"0","1","2","3","4","5","6","7","8","9"}
\* \w of a JavaScript regular expression
WordChars == LowerLetters \cup UpperLetters \cup Digits \cup {"_"}
\* \s of a JavaScript regular expression (the ASCII part)
SpaceChars == {" ", "\t", "\n", "\r", "\f"}

CharAt(s, i) == SubSeq(s, i, i)

\* String.prototype.toLowerCase on one character
LowerChar(c) ==
    CASE c = "A" -> "a" [] c = "B" -> "b" [] c = "C" -> "c" [] c = "D" -> "d"
      [] c = "E" -> "e" [] c = "F" -> "f" [] c = "G" -> "g" [] c = "H" -> "h"
      [] c = "I" -> "i" [] c = "J" -> "j" [] c = "K" -> "k" [] c = "L" -> "l"
      [] c = "M" -> "m" [] c = "N" -> "n" [] c = "O" -> "o" [] c = "P" -> "p"
      [] c = "Q" -> "q" [] c = "R" -> "r" [] c = "S" -> "s" [] c = "T" -> "t"
      [] c = "U" -> "u" [] c = "V" -> "v" [] c = "W" -> "w" [] c = "X" -> "x"
      [] c = "Y" -> "y" [] c = "Z" -> "z" [] OTHER -> c

\* String.prototype.toLowerCase, character by character (by halving)
RECURSIVE toLowerCase(_)
toLowerCase(s) ==
    IF Len(s) <= 1 THEN LowerChar(s)
    ELSE LET mid == Len(s) \div 2
         IN  toLowerCase(SubSeq(s, 1, mid)) \o toLowerCase(SubSeq(s, mid + 1, Len(s)))

\* String.prototype.trim: from the first to the last character that is no space
trimTo(s, solid) ==
    IF solid = {} THEN ""
    ELSE SubSeq(s, CHOOSE i \in solid : \A j \in solid : i <= j,
                   CHOOSE i \in solid : \A j \in solid : i >= j)
trim(s) == trimTo(s, {i \in 1..Len(s) : CharAt(s, i) \notin SpaceChars})

\* String.prototype.startsWith / endsWith / includes
startsWith(s, p) == Len(s) >= Len(p) /\ SubSeq(s, 1, Len(p)) = p
endsWith(s, p) == Len(s) >= Len(p) /\ SubSeq(s, Len(s) - Len(p) + 1, Len(s)) = p
includes(s, p) == \E i \in 1..(Len(s) - Len(p) + 1) : SubSeq(s, i, i + Len(p) - 1) = p

\* String.prototype.slice(1, -1)
slice1m1(s) == SubSeq(s, 2, Len(s) - 1)

\* String.prototype.split(sep) for a one-character separator
RECURSIVE splitFrom(_, _, _, _)
splitFrom(s, sep, i, start) ==
    IF i > Len(s) THEN << SubSeq(s, start, Len(s)) >>
    ELSE IF CharAt(s, i) = sep
         THEN << SubSeq(s, start, i - 1) >> \o splitFrom(s, sep, i + 1, i + 1)
         ELSE splitFrom(s, sep, i + 1, start)
split(s, sep) == splitFrom(s, sep, 1, 1)

\* Array.prototype.join
RECURSIVE join(_, _)
join(parts, sep) ==
    IF parts = << >> THEN ""
    ELSE IF Len(parts) = 1 THEN parts[1]
    ELSE parts[1] \o sep \o join(Tail(parts), sep)

DigitVal(c) ==
    CASE c = "0" -> 0 [] c = "1" -> 1 [] c = "2" -> 2 [] c = "3" -> 3
      [] c = "4" -> 4 [] c = "5" -> 5 [] c = "6" -> 6 [] c = "7" -> 7
      [] c = "8" -> 8 [] c = "9" -> 9

\* Number(s) for a string of decimal digits
RECURSIVE DigitsToNat(_)
DigitsToNat(s) ==
    IF s = "" THEN 0
    ELSE 10 * DigitsToNat(SubSeq(s, 1, Len(s) - 1)) + DigitVal(CharAt(s, Len(s)))

\* String(n) for an integer
NumToStr(n) == ToString(n)

(***************************************************************************)
(* JavaScript regular expressions.  A pattern is a tree of records:        *)
(*   Lit(s)        the characters of s                                     *)
(*   Set(S)        one character of S          NotSet(S)  one not in S     *)
(*   Cat(<<...>>)  concatenation               Alt(<<...>>)  a|b|...       *)
(*   Opt(r) r?     Star(r) r*     Plus(r) r+   LazyStar(r) r*?             *)
(*   Cap(n, r)     capture group number n                                  *)
(*   Bol ^   Eol $   WordB \b                                              *)
(* rxM returns the backtracking engine's alternatives in priority order,   *)
(* so its first element is the match the JavaScript engine returns.        *)
(* A thread is [p |-> next position, c |-> <<start, end>> per group];      *)
(* <<0, 0>> stands for a group that did not participate (undefined).       *)
(* With ci (the i flag) input characters are compared lower-cased; every   *)
(* pattern of the code is written in lower case.                           *)
(***************************************************************************)
Lit(s) == [t |-> "lit", s |-> s]
Set(S) == [t |-> "set", S |-> S, neg |-> FALSE]
NotSet(S) == [t |-> "set", S |-> S, neg |-> TRUE]
Cat(rs) == [t |-> "cat", rs |-> rs]
Alt(rs) == [t |-> "alt", rs |-> rs]
Opt(r) == [t |-> "opt", r |-> r]
Star(r) == [t |-> "rep", r |-> r, min |-> 0, lazy |-> FALSE]
Plus(r) == [t |-> "rep", r |-> r, min |-> 1, lazy |-> FALSE]
LazyStar(r) == [t |-> "rep", r |-> r, min |-> 0, lazy |-> TRUE]
Cap(n, r) == [t |-> "cap", n |-> n, r |-> r]
Bol == [t |-> "bol"]
Eol == [t |-> "eol"]
WordB == [t |-> "wb"]
\* . of a regular expression: any character but a line terminator
AnyChar == NotSet({"\n", "\r"})
\* the alternation of literal words, (?:a|b|c)
Words(ws) == Alt([i \in 1..Len(ws) |-> Lit(ws[i])])

NoCaps == << <<0, 0>>, <<0, 0>> >>

RxChar(s, i, ci) == IF ci THEN LowerChar(CharAt(s, i)) ELSE CharAt(s, i)

RxLitAt(lit, s, p, ci) ==
    /\ p + Len(lit) - 1 <= Len(s)
    /\ \A k \in 1..Len(lit) : RxChar(s, p + k - 1, ci) = CharAt(lit, k)

IsWordAt(s, i) == i >= 1 /\ i <= Len(s) /\ CharAt(s, i) \in WordChars

\* the least element of a set of integers, d when the set is empty
LeastOr(S, d) == IF S = {} THEN d ELSE CHOOSE q \in S : \A q2 \in S : q <= q2

\* the concatenation of the sequences ss[lo..hi], by halving
RECURSIVE Flatten(_, _, _)
Flatten(ss, lo, hi) ==
    IF lo > hi THEN << >>
    ELSE IF lo = hi THEN ss[lo]
    ELSE Flatten(ss, lo, (lo + hi) \div 2) \o Flatten(ss, (lo + hi) \div 2 + 1, hi)

\* whether the character at position q is matched by the class r
RxInSet(r, s, q, ci) == (RxChar(s, q, ci) \in r.S \/ CharAt(s, q) \in r.S) # r.neg

\* the position after the longest run of characters of the class r from p
RxRunEnd(r, s, p, ci) == LeastOr({q \in p..Len(s) : ~RxInSet(r, s, q, ci)}, Len(s) + 1)

RECURSIVE rxM(_, _, _, _)
RECURSIVE rxCat(_, _, _, _)
RECURSIVE rxRep(_, _, _, _, _)

\* the rest rs of a concatenation from each of the threads ths
rxThen(rs, s, ths, ci) ==
    Flatten([k \in 1..Len(ths) |-> rxCat(rs, s, ths[k], ci)], 1, Len(ths))

rxCat(rs, s, th, ci) ==
    IF rs = << >> THEN << th >> ELSE LET first == rxM(Head(rs), s, th, ci) IN rxThen(Tail(rs), s, first, ci)

\* the alternatives of a repetition: greedy tries more first, lazy stops first
rxOrder(lazy, stop, more) == IF lazy THEN stop \o more ELSE more \o stop

\* one more iteration of r from each of the threads once
rxAgain(r, s, once, ci) ==
    Flatten([k \in 1..Len(once) |-> rxRep(r, s, once[k], ci, FALSE)], 1, Len(once))

\* r* / r+ / r*? of a pattern that is not a single class, from thread th;
\* an iteration that consumes nothing is rejected
rxRep(r, s, th, ci, first) ==
    LET once == SelectSeq(rxM(r.r, s, th, ci), LAMBDA t : t.p > th.p)
    IN  rxOrder(r.lazy, IF first /\ r.min = 1 THEN << >> ELSE << th >>,
                rxAgain(r, s, once, ci))

\* the threads that end at lo..hi, longest first (greedy) or shortest first (lazy)
rxRuns(th, lo, hi, lazy) ==
    [k \in 1..(IF hi >= lo THEN hi - lo + 1 ELSE 0) |->
        [th EXCEPT !.p = IF lazy THEN lo + k - 1 ELSE hi - k + 1]]

\* r* / r+ / r*? of a single class: every run length
rxRepSet(r, s, th, ci) ==
    LET hi == RxRunEnd(r.r, s, th.p, ci) IN rxRuns(th, th.p + r.min, hi, r.lazy)

\* the threads of a group's body with the group n recorded from start
rxCapture(inner, n, start) ==
    [k \in 1..Len(inner) |-> [inner[k] EXCEPT !.c[n] = <<start, inner[k].p - 1>>]]

rxM(r, s, th, ci) ==
    CASE r.t = "lit" ->
            IF RxLitAt(r.s, s, th.p, ci)
            THEN << [th EXCEPT !.p = th.p + Len(r.s)] >> ELSE << >>
      [] r.t = "set" ->
            IF th.p <= Len(s) /\ RxInSet(r, s, th.p, ci)
            THEN << [th EXCEPT !.p = th.p + 1] >> ELSE << >>
      [] r.t = "cat" -> rxCat(r.rs, s, th, ci)
      [] r.t = "alt" -> Flatten([k \in 1..Len(r.rs) |-> rxM(r.rs[k], s, th, ci)], 1, Len(r.rs))
      [] r.t = "opt" -> rxM(r.r, s, th, ci) \o << th >>
      [] r.t = "rep" ->
            IF r.r.t = "set" THEN rxRepSet(r, s, th, ci) ELSE rxRep(r, s, th, ci, TRUE)
      [] r.t = "cap" -> LET inner == rxM(r.r, s, th, ci) IN rxCapture(inner, r.n, th.p)
      [] r.t = "bol" -> IF th.p = 1 THEN << th >> ELSE << >>
      [] r.t = "eol" -> IF th.p = Len(s) + 1 THEN << th >> ELSE << >>
      [] r.t = "wb" ->
            IF IsWordAt(s, th.p - 1) # IsWordAt(s, th.p) THEN << th >> ELSE << >>

NoMatch == [found |-> FALSE, index |-> 0, end |-> 0, c |-> NoCaps]

\* the match that starts at i and ends with the thread th
rxFound(i, th) == [found |-> TRUE, index |-> i, end |-> th.p - 1, c |-> th.c]

\* the match at the start i, which is 0 when there is none
rxExecAt(r, s, i, ci) ==
    IF i = 0 THEN NoMatch ELSE rxFound(i, rxM(r, s, [p |-> i, c |-> NoCaps], ci)[1])

\* RegExp.prototype.exec from position `from` (1-based): the leftmost match
rxExec(r, s, from, ci) ==
    rxExecAt(r, s,
             LeastOr({i \in from..(Len(s) + 1) :
                        rxM(r, s, [p |-> i, c |-> NoCaps], ci) # << >>}, 0),
             ci)

\* String.prototype.match(re) without the g flag, and RegExp.prototype.test
rxMatch(r, s, ci) == rxExec(r, s, 1, ci)
rxTest(r, s, ci) == rxMatch(r, s, ci).found

\* match[0] and match[n]; an undefined group reads as the empty string here,
\* rxHasGroup tells the two apart
rxWhole(s, m) == SubSeq(s, m.index, m.end)
rxGroup(s, m, n) == IF m.c[n][1] = 0 THEN "" ELSE SubSeq(s, m.c[n][1], m.c[n][2])
rxHasGroup(m, n) == m.c[n][1] # 0

\* every match of a g-flagged pattern, left to right (lastIndex stepping)
RECURSIVE rxAll(_, _, _, _)
rxAllAfter(m, r, s, ci) ==
    IF ~m.found THEN << >>
    ELSE << m >> \o rxAll(r, s, IF m.end < m.index THEN m.index + 1 ELSE m.end + 1, ci)
rxAll(r, s, from, ci) == LET m == rxExec(r, s, from, ci) IN rxAllAfter(m, r, s, ci)

\* String.prototype.replace(re, '') : g = every match, otherwise the first
RECURSIVE rxCut(_, _, _)
rxCut(s, ms, from) ==
    IF ms = << >> THEN SubSeq(s, from, Len(s))
    ELSE SubSeq(s, from, Head(ms).index - 1) \o rxCut(s, Tail(ms), Head(ms).end + 1)
rxRemoveAll(r, s, ci) == rxCut(s, rxAll(r, s, 1, ci), 1)
rxCutFirst(s, m) == IF m.found THEN rxCut(s, << m >>, 1) ELSE s
rxRemoveFirst(r, s, ci) == rxCutFirst(s, rxMatch(r, s, ci))

(***************************************************************************)
(* JavaScript values carried by a ParsedCall.  A number carries its        *)
(* canonical decimal text (String(n)), so 5, 05 and 5.0 are the same value.*)
(***************************************************************************)
Str(s) == [k |-> "str", v |-> s]
Num(s) == [k |-> "num", v |-> s]
Null == [k |-> "null", v |-> ""]
Bool(b) == [k |-> "bool", v |-> IF b THEN "true" ELSE "false"]
List(items) == [k |-> "list", v |-> items]

RECURSIVE stripLeadingZeros(_)
stripLeadingZeros(s) ==
    IF Len(s) > 1 /\ CharAt(s, 1) = "0" THEN stripLeadingZeros(SubSeq(s, 2, Len(s))) ELSE s

RECURSIVE stripTrailingZeros(_)
stripTrailingZeros(s) ==
    IF s # "" /\ CharAt(s, Len(s)) = "0"
    THEN stripTrailingZeros(SubSeq(s, 1, Len(s) - 1)) ELSE s

HexVal(c) ==
    CASE c \in Digits -> DigitVal(c)
      [] c = "a" -> 10 [] c = "b" -> 11 [] c = "c" -> 12
      [] c = "d" -> 13 [] c = "e" -> 14 [] c = "f" -> 15

RECURSIVE HexToNat(_)
HexToNat(s) ==
    IF s = "" THEN 0
    ELSE 16 * HexToNat(SubSeq(s, 1, Len(s) - 1)) + HexVal(LowerChar(CharAt(s, Len(s))))

RECURSIVE Pow10(_)
Pow10(n) == IF n = 0 THEN 1 ELSE 10 * Pow10(n - 1)

\* StringNumericLiteral forms of Number(string), on a trimmed token:
\* group 1 = integer digits, group 2 = fraction digits
DecimalRe == Cat(<< Bol, Opt(Set({"+", "-"})), Cap(1, Star(Set(Digits))),
                    Opt(Cat(<< Lit("."), Cap(2, Star(Set(Digits))) >>)), Eol >>)
ExponentRe == Cat(<< Bol, Opt(Set({"+", "-"})), Cap(1, Plus(Set(Digits))),
                     Set({"e", "E"}), Opt(Lit("+")), Cap(2, Plus(Set(Digits))), Eol >>)
HexRe == Cat(<< Bol, Lit("0"), Set({"x", "X"}),
                Cap(1, Plus(Set(Digits \cup {"a","b","c","d","e","f","A","B","C","D","E","F"}))), Eol >>)
InfinityRe == Cat(<< Bol, Opt(Set({"+", "-"})), Lit("Infinity"), Eol >>)

\* the text of a number from its sign and its magnitude; -0 prints as 0
SignedText(neg, mag, zero) == IF neg /\ mag # zero THEN "-" \o mag ELSE mag
DecimalText(ip, fp) == IF fp = "" THEN ip ELSE ip \o "." \o fp
IntegerPart(g) == stripLeadingZeros(IF g = "" THEN "0" ELSE g)

\* Number(part) once the literal forms were tried: d, e, h are the matches
\* of the decimal, exponent and hexadecimal forms
ToNumberFrom(part, d, e, h, inf) ==
    IF part = "" THEN [nan |-> FALSE, v |-> "0"]
    ELSE IF d.found /\ (rxGroup(part, d, 1) # "" \/ rxGroup(part, d, 2) # "")
    THEN [nan |-> FALSE,
          v |-> SignedText(startsWith(part, "-"),
                           DecimalText(IntegerPart(rxGroup(part, d, 1)),
                                       stripTrailingZeros(rxGroup(part, d, 2))), "0")]
    ELSE IF e.found
    THEN [nan |-> FALSE,
          v |-> SignedText(startsWith(part, "-"),
                           NumToStr(DigitsToNat(rxGroup(part, e, 1))
                                    * Pow10(DigitsToNat(rxGroup(part, e, 2)))), "0")]
    ELSE IF h.found
    THEN [nan |-> FALSE, v |-> NumToStr(HexToNat(rxGroup(part, h, 1)))]
    ELSE IF inf
    THEN [nan |-> FALSE, v |-> IF startsWith(part, "-") THEN "-Infinity" ELSE "Infinity"]
    ELSE [nan |-> TRUE, v |-> "NaN"]

\* Number(part): [nan |-> isNaN(part), v |-> String(Number(part))]
ToNumber(part) ==
    ToNumberFrom(part, rxMatch(DecimalRe, part, FALSE), rxMatch(ExponentRe, part, FALSE),
                 rxMatch(HexRe, part, FALSE), rxTest(InfinityRe, part, FALSE))

isNaN(part) == ToNumber(part).nan
Number(part) == Num(ToNumber(part).v)

(***************************************************************************)
(* The tool registry (available_tools.js).  AVAILABLE_TOOLS is a plain     *)
(* mutable object: the model keeps the set of its own property names.      *)
(***************************************************************************)
ToolNames == {"getAllTodos", "createTodo", "deleteTodoById", "deleteTodosByIds",
              "searchTodos", "updateTodo", "markTodoCompleted", "markTodoIncomplete",
              "getTodosByPriority", "getTodosByCategory", "getTodoStats",
              "clearCompleted", "getTodoById"}

\* the properties every plain object inherits from Object.prototype
ObjectPrototypeNames == {"constructor", "toString", "toLocaleString", "valueOf",
                         "hasOwnProperty", "isPrototypeOf", "propertyIsEnumerable",
                         "__proto__", "__defineGetter__", "__defineSetter__",
                         "__lookupGetter__", "__lookupSetter__"}

Undefined == [kind |-> "undefined", name |-> ""]
\* a registered descriptor {name, description, parameters, func}
Descriptor(n) == [kind |-> "descriptor", name |-> n]
\* a value found on the prototype chain: truthy, with no func property
Inherited(n) == [kind |-> "inherited", name |-> n]

\* AVAILABLE_TOOLS[functionName], a property read through the prototype chain
Lookup(reg, functionName) ==
    IF functionName \in reg THEN Descriptor(functionName)
    ELSE IF functionName \in ObjectPrototypeNames THEN Inherited(functionName)
    ELSE Undefined

Truthy(tool) == tool.kind # "undefined"
\* typeof tool.func === 'function'
HasFunc(tool) == tool.kind = "descriptor"

(***************************************************************************)
(* eval(`[${paramsStr}]`): the fragment of JavaScript expressions the      *)
(* model evaluates -- array literals of numbers, quoted strings, null,     *)
(* true, false, nested arrays, `delete AVAILABLE_TOOLS.name` (an           *)
(* expression with an effect on the module scope that needs no             *)
(* parenthesis) and free identifiers (a ReferenceError when run).          *)
(* Anything else is a SyntaxError.  The text is parsed whole before any of *)
(* it runs, as the JavaScript engine does.                                 *)
(***************************************************************************)
RECURSIVE skipWs(_, _)
skipWs(s, p) == IF p <= Len(s) /\ CharAt(s, p) \in SpaceChars THEN skipWs(s, p + 1) ELSE p

RECURSIVE findChar(_, _, _)
\* the first position >= p holding c, or 0
findChar(s, c, p) ==
    IF p > Len(s) THEN 0 ELSE IF CharAt(s, p) = c THEN p ELSE findChar(s, c, p + 1)

RECURSIVE wordEnd(_, _)
\* the position after the run of word characters (or '.', '-', '+') starting at p
wordEnd(s, p) ==
    IF p <= Len(s) /\ CharAt(s, p) \in (WordChars \cup {".", "-", "+"})
    THEN wordEnd(s, p + 1) ELSE p

DeletePrefix == "delete AVAILABLE_TOOLS."
SyntaxError == [ok |-> FALSE, ast |-> [k |-> "none"], p |-> 0]

\* a word w that ends before q: null, true, false, a number whose reading
\* is num, an identifier, or nothing of the fragment
evalParseWord(w, q, num) ==
    IF w = "null" THEN [ok |-> TRUE, ast |-> [k |-> "lit", val |-> Null], p |-> q]
    ELSE IF w \in {"true", "false"}
    THEN [ok |-> TRUE, ast |-> [k |-> "lit", val |-> Bool(w = "true")], p |-> q]
    ELSE IF ~num.nan
    THEN [ok |-> TRUE, ast |-> [k |-> "lit", val |-> Num(num.v)], p |-> q]
    ELSE IF \A i \in 1..Len(w) : CharAt(w, i) \in WordChars
    THEN [ok |-> TRUE, ast |-> [k |-> "ident", name |-> w], p |-> q]
    ELSE SyntaxError

RECURSIVE evalParseValue(_, _)
RECURSIVE evalParseItems(_, _, _)

\* one expression starting at p (after white space): [ok, ast, p = position after]
evalParseValue(s, p0) ==
    LET p == skipWs(s, p0)
        c == CharAt(s, p)
    IN  IF p > Len(s) THEN SyntaxError
        ELSE IF c = "[" THEN
            LET q == skipWs(s, p + 1)
            IN  IF q <= Len(s) /\ CharAt(s, q) = "]"
                THEN [ok |-> TRUE, ast |-> [k |-> "arr", items |-> << >>], p |-> q + 1]
                ELSE evalParseItems(s, p + 1, << >>)
        ELSE IF c \in {"\"", "'"} THEN
            LET q == findChar(s, c, p + 1)
            IN  IF q = 0 THEN SyntaxError
                ELSE [ok |-> TRUE, ast |-> [k |-> "lit", val |-> Str(SubSeq(s, p + 1, q - 1))],
                      p |-> q + 1]
        ELSE IF startsWith(SubSeq(s, p, Len(s)), DeletePrefix) THEN
            LET a == p + Len(DeletePrefix)
                q == wordEnd(s, a)
                name == SubSeq(s, a, q - 1)
            IN  IF q > a /\ \A i \in a..(q - 1) : CharAt(s, i) \in WordChars
                THEN [ok |-> TRUE, ast |-> [k |-> "del", name |-> name], p |-> q]
                ELSE SyntaxError
        ELSE IF c \in (WordChars \cup {"-", "+", "."}) THEN
            LET q == wordEnd(s, p)
                w == SubSeq(s, p, q - 1)
            IN  evalParseWord(w, q, ToNumber(w))
        ELSE SyntaxError

\* the elements of an array literal whose '[' was read; p is after the '[' or a ','
evalParseItems(s, p, acc) ==
    LET v == evalParseValue(s, p)
        q == skipWs(s, v.p)
    IN  IF ~v.ok \/ q > Len(s) THEN SyntaxError
        ELSE IF CharAt(s, q) = ","
        THEN evalParseItems(s, q + 1, Append(acc, v.ast))
        ELSE IF CharAt(s, q) = "]"
        THEN [ok |-> TRUE, ast |-> [k |-> "arr", items |-> Append(acc, v.ast)], p |-> q + 1]
        ELSE SyntaxError

RECURSIVE evalRun(_, _)
RECURSIVE evalRunItems(_, _, _)

\* running an expression: [threw, val, reg = the registry after its effects]
evalRun(ast, reg) ==
    CASE ast.k = "lit" -> [threw |-> FALSE, val |-> ast.val, reg |-> reg]
      [] ast.k = "del" -> [threw |-> FALSE, val |-> Bool(TRUE), reg |-> reg \ {ast.name}]
      [] ast.k = "ident" -> [threw |-> TRUE, val |-> Null, reg |-> reg]
      [] ast.k = "arr" -> evalRunItems(ast.items, reg, << >>)

evalRunItems(items, reg, acc) ==
    IF items = << >> THEN [threw |-> FALSE, val |-> List(acc), reg |-> reg]
    ELSE LET r == evalRun(Head(items), reg)
         IN  IF r.threw THEN r
             ELSE evalRunItems(Tail(items), r.reg, Append(acc, r.val))

\* eval(src): [threw, val, reg]
jsEvalParsed(src, t, reg) ==
    IF ~t.ok \/ skipWs(src, t.p) # Len(src) + 1
    THEN [threw |-> TRUE, val |-> Null, reg |-> reg]
    ELSE evalRun(t.ast, reg)
jsEval(src, reg) == jsEvalParsed(src, evalParseValue(src, 1), reg)

(***************************************************************************)
(* parseToolCall (parse_tool.js).                                          *)
(***************************************************************************)
\* /(\w+)\s*\(([^)]*)\)/g
functionCallRegex ==
    Cat(<< Cap(1, Plus(Set(WordChars))), Star(Set(SpaceChars)), Lit("("),
           Cap(2, Star(NotSet({")"}))), Lit(")") >>)

\* paramsStr.split(',').map(p => p.trim())
RECURSIVE mapTrim(_)
mapTrim(parts) ==
    IF parts = << >> THEN << >> ELSE << trim(Head(parts)) >> \o mapTrim(Tail(parts))
paramParts(paramsStr) == mapTrim(split(paramsStr, ","))

\* the coercion of one token on the path without brackets (lines 23-35),
\* num being the token read as a number; a sequence of zero or one value,
\* as an empty token pushes nothing
coercePartWith(part, num) ==
    IF startsWith(part, "\"") /\ endsWith(part, "\"") THEN << Str(slice1m1(part)) >>
    ELSE IF startsWith(part, "'") /\ endsWith(part, "'") THEN << Str(slice1m1(part)) >>
    ELSE IF part = "null" THEN << Null >>
    ELSE IF part = "true" \/ part = "false" THEN << Bool(part = "true") >>
    ELSE IF ~num.nan /\ part # "" THEN << Num(num.v) >>
    ELSE IF part # "" THEN << Str(part) >>
    ELSE << >>
coercePart(part) == coercePartWith(part, ToNumber(part))

\* the coercion of one token in the catch block (lines 41-47)
coercePartFallbackWith(part, num) ==
    IF startsWith(part, "\"") /\ endsWith(part, "\"") THEN << Str(slice1m1(part)) >>
    ELSE IF ~num.nan THEN << Num(num.v) >>
    ELSE << Str(part) >>
coercePartFallback(part) == coercePartFallbackWith(part, ToNumber(part))

RECURSIVE coerceAll(_)
coerceAll(parts) ==
    IF parts = << >> THEN << >> ELSE coercePart(Head(parts)) \o coerceAll(Tail(parts))

RECURSIVE coerceAllFallback(_)
coerceAllFallback(parts) ==
    IF parts = << >> THEN << >>
    ELSE coercePartFallback(Head(parts)) \o coerceAllFallback(Tail(parts))

\* whether the argument text takes the eval path (line 17)
UsesEval(paramsStr) == includes(paramsStr, "[") \/ includes(paramsStr, "{")

\* a catch block that keeps the argument text whole instead of tokenizing it
parseEvaluatedWhole(paramsStr, e) ==
    IF e.threw
    THEN [params |-> << Str(paramsStr) >>, reg |-> e.reg, evaluated |-> TRUE]
    ELSE [params |-> e.val.v, reg |-> e.reg, evaluated |-> TRUE]

\* lines 18-19 and 38-49: the evaluated array, or the catch block's tokens
parseEvaluated(paramsStr, e) ==
    IF e.threw
    THEN [params |-> coerceAllFallback(paramParts(paramsStr)), reg |-> e.reg,
          evaluated |-> TRUE]
    ELSE [params |-> e.val.v, reg |-> e.reg, evaluated |-> TRUE]

\* lines 14-50: [params, reg, evaluated = whether eval ran the text]
parseParams(paramsStr, reg) ==
    IF paramsStr = "" THEN [params |-> << >>, reg |-> reg, evaluated |-> FALSE]
    ELSE IF UsesEval(paramsStr)
    THEN parseEvaluated(paramsStr, jsEval("[" \o paramsStr \o "]", reg))
    ELSE [params |-> coerceAll(paramParts(paramsStr)), reg |-> reg, evaluated |-> FALSE]

\* the match put in front of the earlier ones instead of after them
pushMatchFront(acc, functionName, pp, at) ==
    [calls |-> << [functionName |-> functionName,
                   params |-> pp.params,
                   tool |-> Lookup(pp.reg, functionName),
                   at |-> at] >> \o acc.calls,
     reg |-> pp.reg,
     evaluated |-> acc.evaluated \/ pp.evaluated]

\* lines 52-56: the match pushed, its tool being read after the arguments
pushMatch(acc, functionName, pp, at) ==
    [calls |-> Append(acc.calls,
                      [functionName |-> functionName,
                       params |-> pp.params,
                       tool |-> Lookup(pp.reg, functionName),
                       at |-> at]),
     reg |-> pp.reg,
     evaluated |-> acc.evaluated \/ pp.evaluated]

\* one iteration of the while loop (lines 9-58) on the match m; `at` records
\* where the span starts in the text
parseOne(text, m, acc) ==
    IF Truthy(Lookup(acc.reg, rxGroup(text, m, 1)))
    THEN pushMatch(acc, rxGroup(text, m, 1),
                   parseParams(trim(rxGroup(text, m, 2)), acc.reg), m.index)
    ELSE acc

RECURSIVE parseLoop(_, _, _)
parseLoop(text, ms, acc) ==
    IF ms = << >> THEN acc ELSE parseLoop(text, Tail(ms), parseOne(text, Head(ms), acc))

\* parseToolCall(text) with AVAILABLE_TOOLS = reg:
\* [calls = the returned matches, reg = AVAILABLE_TOOLS afterwards, evaluated]
parseToolCall(text, reg) ==
    parseLoop(text, rxAll(functionCallRegex, text, 1, FALSE),
              [calls |-> << >>, reg |-> reg, evaluated |-> FALSE])

(***************************************************************************)
(* The NLU engine (nlu.js): intent patterns.  All of them carry the i flag.*)
(* S1 is \s+ and S0 is \s*; W1 is \w+ and D1 is \d+.                       *)
(***************************************************************************)
S1 == Plus(Set(SpaceChars))
S0 == Star(Set(SpaceChars))
W1 == Plus(Set(WordChars))
D1 == Plus(Set(Digits))
\* todos? | tasks? | items?
TodosTasksItems ==
    Alt(<< Cat(<< Lit("todo"), Opt(Lit("s")) >>), Cat(<< Lit("task"), Opt(Lit("s")) >>),
           Cat(<< Lit("item"), Opt(Lit("s")) >>) >>)
\* todos? | tasks? | list
TodosTasksList ==
    Alt(<< Cat(<< Lit("todo"), Opt(Lit("s")) >>), Cat(<< Lit("task"), Opt(Lit("s")) >>),
           Lit("list") >>)
\* what(?:'s|\s+are?)
WhatsOrWhatAre ==
    Cat(<< Lit("what"), Alt(<< Lit("'s"), Cat(<< S1, Lit("ar"), Opt(Lit("e")) >>) >>) >>)
\* (?:about|for|with|containing|related\s+to)
AboutFor ==
    Alt(<< Lit("about"), Lit("for"), Lit("with"), Lit("containing"),
           Cat(<< Lit("related"), S1, Lit("to") >>) >>)
\* ['""]
Quote == Set({"'", "\""})
\* (?:todo|task|item)  and  (?:todo|task|item|number)
TodoTaskItem == Words(<< "todo", "task", "item" >>)
TodoTaskItemNumber == Words(<< "todo", "task", "item", "number" >>)
\* #?(\d+)
HashNum == Cat(<< Opt(Lit("#")), Cap(1, D1) >>)

\* view.patterns, nlu.js lines 11-15
viewPatterns == <<
    Cat(<< Alt(<< Lit("show"), Lit("list"), Lit("display"), Lit("get"), Lit("see"),
                  Lit("view"), Lit("check"),
                  Cat(<< WhatsOrWhatAre, S1, Opt(Words(<< "my", "the" >>)) >>) >>),
           S1, Opt(Cat(<< Lit("me"), S1 >>)), Opt(Cat(<< Lit("my"), S1 >>)),
           Opt(Cat(<< Lit("all"), S1 >>)), Opt(Cat(<< Lit("the"), S1 >>)),
           Alt(<< Cat(<< Lit("todo"), Opt(Lit("s")) >>), Cat(<< Lit("task"), Opt(Lit("s")) >>),
                  Cat(<< Lit("item"), Opt(Lit("s")) >>), Lit("list"), Lit("things") >>) >>),
    Cat(<< WhatsOrWhatAre, S1, Opt(Cat(<< Lit("on"), S1 >>)), Opt(Cat(<< Lit("my"), S1 >>)),
           Opt(Cat(<< Lit("todo"), S1 >>)), Lit("list") >>),
    Cat(<< Lit("what"), S1, Opt(Cat(<< Lit("do"), S1 >>)), Opt(Cat(<< Lit("i"), S1 >>)),
           Opt(Cat(<< Lit("have"), S1 >>)), Opt(Cat(<< Lit("to"), S1 >>)), Lit("do") >>),
    Cat(<< Lit("my"), S1, TodosTasksList >>),
    Cat(<< Lit("give"), S1, Lit("me"), S1, Opt(Cat(<< Lit("my"), S1 >>)), TodosTasksList >>)
  >>
\* view.priority_filters, lines 17-21 (high, medium, low)
viewPriorityFilters == <<
    Words(<< "high", "urgent", "important", "critical", "asap", "priority", "top" >>),
    Words(<< "medium", "normal", "regular", "standard" >>),
    Words(<< "low", "minor", "small", "least" >>) >>

\* create.patterns, lines 28-32
createPatterns == <<
    Cat(<< Words(<< "add", "create", "make", "new", "insert", "put" >>), S1,
           Opt(Cat(<< Lit("a"), S1 >>)), Opt(Cat(<< Lit("new"), S1 >>)),
           Words(<< "todo", "task", "item", "reminder" >>) >>),
    Cat(<< Lit("i"), S1,
           Alt(<< Cat(<< Lit("need"), S1, Lit("to") >>), Cat(<< Lit("have"), S1, Lit("to") >>),
                  Cat(<< Lit("want"), S1, Lit("to") >>), Lit("should"), Lit("must") >>),
           S1, Cap(1, Plus(AnyChar)) >>),
    Cat(<< Lit("remind"), S1, Lit("me"), S1, Lit("to"), S1, Cap(1, Plus(AnyChar)) >>),
    Cat(<< Words(<< "todo", "task" >>), Lit(":"), S0, Cap(1, Plus(AnyChar)) >>),
    Cat(<< Lit("add"), S1, Lit("to"), S1, Opt(Cat(<< Lit("my"), S1 >>)), Lit("list"),
           S0, Opt(Set({":", "-"})), S0, Cap(1, Plus(AnyChar)) >>)
  >>
\* create.priority_indicators, lines 34-38: declared, read by no code
createPriorityIndicators == <<
    Words(<< "high", "urgent", "important", "critical", "asap", "priority",
             "immediately", "soon", "quickly" >>),
    Words(<< "medium", "normal", "regular", "standard" >>),
    Words(<< "low", "minor", "small", "least", "whenever", "eventually", "someday" >>) >>

\* delete.patterns, lines 45-47
deletePatterns == <<
    Cat(<< Alt(<< Lit("delete"), Lit("remove"), Lit("del"), Lit("erase"),
                  Cat(<< Lit("get"), S1, Lit("rid"), S1, Lit("of") >>), Lit("eliminate") >>),
           S1, Opt(TodoTaskItem), S0, HashNum >>),
    Cat(<< Words(<< "delete", "remove", "del", "erase" >>), S1, TodosTasksItems, S0,
           Opt(Lit("#")),
           Cap(1, Cat(<< D1, Star(Cat(<< S0, Plus(Set({",", "&", "a", "n", "d"} \cup SpaceChars)),
                                        S0, D1 >>)) >>)) >>),
    Cat(<< Alt(<< Lit("cancel"), Cat(<< Lit("forget"), S1, Lit("about") >>), Lit("nevermind") >>),
           S1, Opt(TodoTaskItem), S0, HashNum >>)
  >>

\* (?:complete|done|finished)
CompleteDoneFinished == Words(<< "complete", "done", "finished" >>)

\* complete.patterns, lines 54-57 (utterances are ASCII: the two check-mark
\* characters of the 4th pattern are left out of its alternation)
completePatterns == <<
    Cat(<< Alt(<< Lit("complete"), Lit("done"), Lit("finish"), Lit("finished"),
                  Cat(<< Lit("mark"), S1, Opt(Cat(<< Lit("as"), S1 >>)), CompleteDoneFinished >>) >>),
           S1, Opt(TodoTaskItemNumber), S0, HashNum >>),
    Cat(<< Alt(<< Cat(<< Lit("i"), S1, Words(<< "completed", "finished", "did" >>) >>),
                  Cat(<< Lit("check"), S1, Lit("off") >>) >>),
           S1, Opt(TodoTaskItemNumber), S0, HashNum >>),
    Cat(<< TodoTaskItemNumber, S0, HashNum, S1, Opt(Cat(<< Lit("is"), S1 >>)),
           CompleteDoneFinished >>),
    Cat(<< Lit("check"), S1, Opt(TodoTaskItemNumber), S0, HashNum >>)
  >>

\* incomplete.patterns, lines 64-65
incompletePatterns == <<
    Cat(<< Alt(<< Lit("incomplete"), Lit("undone"), Lit("unfinish"), Lit("reopen"),
                  Cat(<< Lit("mark"), S1, Opt(Cat(<< Lit("as"), S1 >>)),
                         Words(<< "incomplete", "undone", "pending" >>) >>) >>),
           S1, Opt(TodoTaskItemNumber), S0, HashNum >>),
    Cat(<< Words(<< "uncheck", "uncomplete" >>), S1, Opt(TodoTaskItemNumber), S0, HashNum >>)
  >>

\* update.patterns, lines 72-73
updatePatterns == <<
    Cat(<< Words(<< "update", "edit", "change", "modify", "alter" >>), S1,
           Opt(TodoTaskItemNumber), S0, HashNum >>),
    Cat(<< Lit("change"), S1, Opt(TodoTaskItemNumber), S0, HashNum, S1, Lit("to"), S1,
           Cap(2, Plus(AnyChar)) >>)
  >>

\* search.patterns, lines 80-82
searchPatterns == <<
    Cat(<< Alt(<< Lit("search"), Lit("find"), Cat(<< Lit("look"), S1, Lit("for") >>),
                  Lit("locate") >>),
           S1, Opt(TodosTasksItems), S0, Opt(AboutFor), S0, Opt(Quote),
           Cap(1, Plus(NotSet({"'", "\""}))), Opt(Quote) >>),
    Cat(<< Lit("find"), S1, Opt(Cat(<< Lit("me"), S1 >>)), Opt(Cat(<< Lit("all"), S1 >>)),
           TodosTasksItems, S1, AboutFor, S0, Opt(Quote),
           Cap(1, Plus(NotSet({"'", "\""}))), Opt(Quote) >>),
    Cat(<< Lit("what"), S1, TodosTasksItems, S1,
           Opt(Cat(<< Lit("do"), S1, Lit("i"), S1, Lit("have"), S1 >>)), AboutFor, S0,
           Opt(Quote), Cap(1, Plus(NotSet({"'", "\""}))), Opt(Quote) >>)
  >>

\* stats.patterns, lines 89-91
statsPatterns == <<
    Alt(<< Lit("stats"), Lit("statistics"), Lit("summary"), Lit("overview"), Lit("report"),
           Cat(<< Lit("how"), S1, Words(<< "many", "much" >>) >>), Lit("count") >>),
    Cat(<< Lit("what"), Alt(<< Lit("'s"), Cat(<< S1, Lit("is") >>) >>), S1, Lit("my"), S1,
           Words(<< "progress", "status" >>) >>),
    Cat(<< Lit("show"), S1, Lit("me"), S1, Opt(Cat(<< Lit("my"), S1 >>)),
           Words(<< "stats", "statistics", "summary", "progress" >>) >>)
  >>

\* clear.patterns, lines 98-99
clearPatterns == <<
    Cat(<< Words(<< "clear", "clean", "remove", "delete" >>), S1, Opt(Cat(<< Lit("all"), S1 >>)),
           Words(<< "completed", "done", "finished" >>), S0, Opt(TodosTasksItems) >>),
    Cat(<< Alt(<< Cat(<< Lit("clean"), S1, Lit("up") >>), Cat(<< Lit("tidy"), S1, Lit("up") >>) >>),
           S0, Opt(Cat(<< Lit("my"), S1 >>)),
           Alt(<< Lit("list"), Cat(<< Lit("todo"), Opt(Lit("s")) >>),
                  Cat(<< Lit("task"), Opt(Lit("s")) >>) >>) >>)
  >>

\* this.intentPatterns in declaration order (Object.entries order):
\* priority_filters is << >> for an intent that declares none
intentPatterns == <<
    [type |-> "view", patterns |-> viewPatterns,
     priority_filters |-> viewPriorityFilters, priority_indicators |-> << >>],
    [type |-> "create", patterns |-> createPatterns,
     priority_filters |-> << >>, priority_indicators |-> createPriorityIndicators],
    [type |-> "delete", patterns |-> deletePatterns,
     priority_filters |-> << >>, priority_indicators |-> << >>],
    [type |-> "complete", patterns |-> completePatterns,
     priority_filters |-> << >>, priority_indicators |-> << >>],
    [type |-> "incomplete", patterns |-> incompletePatterns,
     priority_filters |-> << >>, priority_indicators |-> << >>],
    [type |-> "update", patterns |-> updatePatterns,
     priority_filters |-> << >>, priority_indicators |-> << >>],
    [type |-> "search", patterns |-> searchPatterns,
     priority_filters |-> << >>, priority_indicators |-> << >>],
    [type |-> "stats", patterns |-> statsPatterns,
     priority_filters |-> << >>, priority_indicators |-> << >>],
    [type |-> "clear", patterns |-> clearPatterns,
     priority_filters |-> << >>, priority_indicators |-> << >>]
  >>

(***************************************************************************)
(* The NLU engine: entity extraction.  An optional string (null or a       *)
(* string in the code) is << >> or << s >>.                                *)
(***************************************************************************)
None == << >>
Some(s) == << s >>
\* JavaScript truthiness of a string-or-null
IsSet(o) == o # << >> /\ o[1] # ""

\* contextKeywords.priorities, lines 106-110, in declaration order
priorityKeywords == <<
    [priority |-> "high",
     keywords |-> << "urgent", "important", "critical", "asap", "priority", "immediately",
                     "soon", "quickly", "deadline" >>],
    [priority |-> "medium",
     keywords |-> << "medium", "normal", "regular", "standard", "default" >>],
    [priority |-> "low",
     keywords |-> << "low", "minor", "small", "least", "whenever", "eventually", "someday",
                     "later" >>] >>

\* contextKeywords.categories, lines 111-118, in declaration order
categoryKeywords == <<
    [category |-> "work",
     keywords |-> << "work", "job", "office", "business", "meeting", "project", "deadline",
                     "client" >>],
    [category |-> "personal",
     keywords |-> << "personal", "self", "me", "myself", "private", "home" >>],
    [category |-> "shopping",
     keywords |-> << "shopping", "buy", "purchase", "store", "market", "groceries" >>],
    [category |-> "health",
     keywords |-> << "health", "doctor", "medical", "appointment", "exercise", "fitness",
                     "gym" >>],
    [category |-> "study",
     keywords |-> << "study", "learn", "school", "education", "homework", "research",
                     "read" >>],
    [category |-> "home",
     keywords |-> << "home", "house", "clean", "organize", "fix", "repair", "maintenance" >>] >>

\* whether text includes one of the keywords
AnyKeyword(text, keywords) == \E i \in 1..Len(keywords) : includes(text, keywords[i])

\* the first table entry one of whose keywords the text includes, or 0
RECURSIVE firstHit(_, _, _)
firstHit(text, table, i) ==
    IF i > Len(table) THEN 0
    ELSE IF AnyKeyword(text, table[i].keywords) THEN i
    ELSE firstHit(text, table, i + 1)

\* extractNumbers, lines 298-301: text.match(/\b\d+\b/g).map(Number)
numberRe == Cat(<< WordB, D1, WordB >>)
RECURSIVE matchesToNumbers(_, _)
matchesToNumbers(text, ms) ==
    IF ms = << >> THEN << >>
    ELSE << DigitsToNat(rxWhole(text, Head(ms))) >> \o matchesToNumbers(text, Tail(ms))
extractNumbers(text) == matchesToNumbers(text, rxAll(numberRe, text, 1, FALSE))

\* extractPriority, lines 254-271
urgencyRe == Words(<< "deadline", "urgent", "asap", "immediately", "now", "quickly", "soon" >>)
deferralRe == Alt(<< Lit("eventually"), Lit("someday"), Lit("later"), Lit("whenever"),
                     Cat(<< Lit("not"), S1, Lit("urgent") >>) >>)
extractPriority(text) ==
    LET contextWords == toLowerCase(text)
        hit == firstHit(contextWords, priorityKeywords, 1)
    IN  IF hit # 0 THEN priorityKeywords[hit].priority
        ELSE IF rxTest(urgencyRe, text, TRUE) THEN "high"
        ELSE IF rxTest(deferralRe, text, TRUE) THEN "low"
        ELSE "medium"

\* extractCategory, lines 274-295
directCategoryRe ==
    Cat(<< Alt(<< Lit("category"), Lit("tag"), Lit("type"), Lit("group"), Lit("about"),
                  Lit("for"), Cat(<< Lit("related"), S1, Lit("to") >>) >>),
           S1, Cap(1, W1) >>)
hashtagRe == Cat(<< Lit("#"), Cap(1, W1) >>)
\* lines 280-294: the direct mention, else the hashtag, else the first keyword hit
categoryFrom(text, directMatch, hashtagMatch, hit) ==
    IF directMatch.found THEN Some(rxGroup(text, directMatch, 1))
    ELSE IF hashtagMatch.found THEN Some(rxGroup(text, hashtagMatch, 1))
    ELSE IF hit # 0 THEN Some(categoryKeywords[hit].category)
    ELSE None
extractCategory(text) ==
    categoryFrom(text, rxMatch(directCategoryRe, text, TRUE), rxMatch(hashtagRe, text, FALSE),
                 firstHit(toLowerCase(text), categoryKeywords, 1))

\* extractTodoText, lines 234-245
commandPrefixRe ==
    Cat(<< Bol,
           Alt(<< Lit("add"), Lit("create"), Lit("make"), Lit("new"),
                  Cat(<< Lit("i"), S1,
                         Alt(<< Cat(<< Lit("need"), S1, Lit("to") >>),
                                Cat(<< Lit("have"), S1, Lit("to") >>),
                                Cat(<< Lit("want"), S1, Lit("to") >>),
                                Lit("should"), Lit("must") >>) >>),
                  Cat(<< Lit("remind"), S1, Lit("me"), S1, Lit("to") >>),
                  Cat(<< Lit("todo"), Opt(Lit(":")) >>) >>),
           S0 >>)
priorityPhraseRe ==
    Cat(<< S0, Opt(Cat(<< Lit("with"), S1 >>)),
           Words(<< "high", "medium", "low", "urgent", "important" >>), S1, Lit("priority"),
           S0 >>)
categoryPhraseRe ==
    Cat(<< S0, Words(<< "category", "tag", "type", "group" >>), S1, W1, S0 >>)
\* /^\s*[\'\"]|[\'\"]?\s*$/g
quotesRe ==
    Alt(<< Cat(<< Bol, S0, Quote >>), Cat(<< Opt(Quote), S0, Eol >>) >>)
\* a || b on strings
OrElse(a, b) == IF a # "" THEN a ELSE b
\* lines 236-242: the chain of replace calls
stripCommand(text) ==
    rxRemoveAll(quotesRe,
        rxRemoveAll(categoryPhraseRe,
            rxRemoveAll(priorityPhraseRe,
                rxRemoveFirst(commandPrefixRe, text, TRUE), TRUE), TRUE), FALSE)
extractTodoText(text) == OrElse(trim(stripCommand(text)), trim(text))

\* extractSearchTerms, lines 248-251
searchTermsRe ==
    Cat(<< Alt(<< Lit("search"), Lit("find"), Cat(<< Lit("look"), S1, Lit("for") >>) >>),
           LazyStar(AnyChar), Opt(AboutFor), S0, Opt(Quote),
           Cap(1, Plus(NotSet({"'", "\""}))), Opt(Quote) >>)
\* match ? match[1].trim() : null
groupOrNull(text, m) == IF m.found THEN Some(trim(rxGroup(text, m, 1))) ELSE None
extractSearchTerms(text) == groupOrNull(text, rxMatch(searchTermsRe, text, TRUE))

\* the update branch of extractIntentSpecificEntities, lines 224-229
updateTextRe ==
    Cat(<< Words(<< "change", "update", "edit" >>), LazyStar(AnyChar), Lit("to"), S1,
           Cap(1, Plus(AnyChar)) >>)

(***************************************************************************)
(* The NLU engine: classification.  A confidence is an exact fraction      *)
(* [n |-> numerator, d |-> denominator] with d > 0.                        *)
(***************************************************************************)
Frac(n, d) == [n |-> n, d |-> d]
FracLess(a, b) == a.n * b.d < b.n * a.d
FracEq(a, b) == a.n * b.d = b.n * a.d
FracLeq(a, b) == a.n * b.d <= b.n * a.d
Min(a, b) == IF a < b THEN a ELSE b

\* matchPatterns, lines 175-190: one entry per pattern that matches, with the
\* pattern's position in the list, match.index (0-based) and match[0].length
matchEntry(i, m) ==
    IF m.found
    THEN << [pattern |-> i, match |-> m, index |-> m.index - 1,
             length |-> m.end - m.index + 1] >>
    ELSE << >>
RECURSIVE matchPatternsFrom(_, _, _)
matchPatternsFrom(text, patterns, i) ==
    IF i > Len(patterns) THEN << >>
    ELSE LET m == rxMatch(patterns[i], text, TRUE)
         IN  matchEntry(i, m) \o matchPatternsFrom(text, patterns, i + 1)
matchPatterns(text, patterns) == matchPatternsFrom(text, patterns, 1)

RECURSIVE SumLengths(_)
SumLengths(matches) ==
    IF matches = << >> THEN 0 ELSE Head(matches).length + SumLengths(Tail(matches))

\* how many of the filter patterns match the text
RECURSIVE CountMatching(_, _)
CountMatching(filters, text) ==
    IF filters = << >> THEN 0
    ELSE (IF rxTest(Head(filters), text, TRUE) THEN 1 ELSE 0) + CountMatching(Tail(filters), text)

\* the sum 0.3 * count + min(sum / count / len, 0.4) + 0.1 * k without its cap
ConfidenceUncapped(count, sum, len, k) ==
    Frac(3 * count * count * len + Min(10 * sum, 4 * count * len) + k * count * len,
         10 * count * len)

\* a confidence without the share for the length of the matches
ConfidenceBaseOnly(count, sum, len, k) ==
    LET d == 10 * count * len
    IN  Frac(Min(3 * count * count * len + k * count * len, d), d)

\* the fraction min(1.0, 0.3 * count + min(sum / count / len, 0.4) + 0.1 * k)
\* over the denominator 10 * count * len
ConfidenceOf(count, sum, len, k) ==
    LET d == 10 * count * len
    IN  Frac(Min(3 * count * count * len + Min(10 * sum, 4 * count * len) + k * count * len, d), d)

\* calculateConfidence, lines 193-211: only priority_filters is read
calculateConfidence(matches, intentData, text) ==
    ConfidenceOf(Len(matches), SumLengths(matches), Len(text),
                 CountMatching(intentData.priority_filters, text))

\* a comparison that lets a later intent of equal confidence replace the best
BetterOrEqual(confidence, best) == FracLeq(best, confidence)
\* the comparison of line 160
Better(confidence, best) == FracLess(best, confidence)

\* one score per intent, in declaration order (the loop of lines 156-166)
scoreOf(intentData, matches, normalizedText) ==
    [type |-> intentData.type,
     matches |-> matches,
     confidence |-> IF matches = << >> THEN Frac(0, 1)
                    ELSE calculateConfidence(matches, intentData, normalizedText)]
scoresOf(table, normalizedText) ==
    [i \in 1..Len(table) |->
        scoreOf(table[i], matchPatterns(normalizedText, table[i].patterns), normalizedText)]
intentScores(normalizedText) == scoresOf(intentPatterns, normalizedText)

\* the running best of the loop of lines 156-166, after the first i intents
RECURSIVE bestIntent(_, _)
bestIntent(scores, i) ==
    IF i = 0 THEN [primaryIntent |-> "null", confidence |-> Frac(0, 1), matches |-> << >>]
    ELSE LET prev == bestIntent(scores, i - 1)
         IN  IF scores[i].matches # << >> /\ Better(scores[i].confidence, prev.confidence)
             THEN [primaryIntent |-> scores[i].type, confidence |-> scores[i].confidence,
                   matches |-> scores[i].matches]
             ELSE prev

\* extractIntentSpecificEntities, lines 214-231
intentTodoText(primaryIntent, originalText) ==
    IF primaryIntent = "create" THEN Some(extractTodoText(originalText))
    ELSE IF primaryIntent = "update"
    THEN groupOrNull(originalText, rxMatch(updateTextRe, originalText, TRUE))
    ELSE None
intentSearchTerms(primaryIntent, originalText) ==
    IF primaryIntent = "search" THEN extractSearchTerms(originalText) ELSE None

\* analyzeIntent, lines 133-172; scores keeps every intent's matches and
\* confidence, of which the code keeps the best only
analysisWith(text, normalizedText, scores, best) ==
    [originalText |-> text,
     normalizedText |-> normalizedText,
     primaryIntent |-> best.primaryIntent,
     confidence |-> best.confidence,
     matches |-> best.matches,
     scores |-> scores,
     entities |-> [numbers |-> extractNumbers(text),
                   priorities |-> extractPriority(text),
                   categories |-> extractCategory(text),
                   todoText |-> intentTodoText(best.primaryIntent, text),
                   searchTerms |-> intentSearchTerms(best.primaryIntent, text)]]
analysisFrom(text, normalizedText, scores) ==
    analysisWith(text, normalizedText, scores, bestIntent(scores, Len(scores)))
analyzeIntent(text) ==
    analysisFrom(text, trim(toLowerCase(text)), intentScores(trim(toLowerCase(text))))

(***************************************************************************)
(* generateFunctionCall, lines 327-391.  NoCall is the null it returns.    *)
(***************************************************************************)
NoCall == << >>
Quoted(s) == "\"" \o s \o "\""

\* the numbers written last to first
RECURSIVE mapNumToStrBackwards(_)
mapNumToStrBackwards(ns) ==
    IF ns = << >> THEN << >> ELSE mapNumToStrBackwards(Tail(ns)) \o << NumToStr(Head(ns)) >>

RECURSIVE mapNumToStr(_)
mapNumToStr(ns) ==
    IF ns = << >> THEN << >> ELSE << NumToStr(Head(ns)) >> \o mapNumToStr(Tail(ns))

\* `${x}` of a string-or-null
Interp(o) == IF o = << >> THEN "null" ELSE o[1]

ThresholdNum == 3
ThresholdDen == 10
\* confidence < 0.3, line 330
BelowThreshold(confidence) == FracLess(confidence, Frac(ThresholdNum, ThresholdDen))
\* confidence > 0.3, index.js line 156
AboveThreshold(confidence) == FracLess(Frac(ThresholdNum, ThresholdDen), confidence)

generateFunctionCall(analysis) ==
    LET primaryIntent == analysis.primaryIntent
        entities == analysis.entities
    IN  IF BelowThreshold(analysis.confidence) THEN NoCall
        ELSE CASE primaryIntent = "view" ->
                    IF entities.priorities # "medium"
                    THEN Some("getTodosByPriority(" \o Quoted(entities.priorities) \o ")")
                    ELSE IF IsSet(entities.categories)
                    THEN Some("getTodosByCategory(" \o Quoted(entities.categories[1]) \o ")")
                    ELSE Some("getAllTodos()")
               [] primaryIntent = "create" ->
                    Some("createTodo("
                         \o join(<< Quoted(Interp(entities.todoText)) >>
                                 \o (IF entities.priorities # "medium"
                                     THEN << Quoted(entities.priorities) >> ELSE << >>)
                                 \o (IF IsSet(entities.categories)
                                     THEN << Quoted(entities.categories[1]) >> ELSE << >>),
                                 ", ")
                         \o ")")
               [] primaryIntent = "delete" ->
                    IF Len(entities.numbers) > 1
                    THEN Some("deleteTodosByIds([" \o join(mapNumToStr(entities.numbers), ", ")
                              \o "])")
                    ELSE IF Len(entities.numbers) = 1
                    THEN Some("deleteTodoById(" \o NumToStr(entities.numbers[1]) \o ")")
                    ELSE NoCall
               [] primaryIntent = "complete" ->
                    IF Len(entities.numbers) > 0
                    THEN Some("markTodoCompleted(" \o NumToStr(entities.numbers[1]) \o ")")
                    ELSE NoCall
               [] primaryIntent = "incomplete" ->
                    IF Len(entities.numbers) > 0
                    THEN Some("markTodoIncomplete(" \o NumToStr(entities.numbers[1]) \o ")")
                    ELSE NoCall
               [] primaryIntent = "update" ->
                    IF Len(entities.numbers) > 0
                    THEN Some("updateTodo("
                              \o join(<< NumToStr(entities.numbers[1]) >>
                                      \o (IF IsSet(entities.todoText)
                                          THEN << Quoted(entities.todoText[1]) >> ELSE << >>)
                                      \o (IF entities.priorities # "medium"
                                          THEN << "null, " \o Quoted(entities.priorities) >>
                                          ELSE << >>)
                                      \o (IF IsSet(entities.categories)
                                          THEN << "null, null, " \o Quoted(entities.categories[1]) >>
                                          ELSE << >>),
                                      ", ")
                              \o ")")
                    ELSE NoCall
               [] primaryIntent = "search" ->
                    IF IsSet(entities.searchTerms)
                    THEN Some("searchTodos(" \o Quoted(entities.searchTerms[1]) \o ")")
                    ELSE NoCall
               [] primaryIntent = "stats" -> Some("getTodoStats()")
               [] primaryIntent = "clear" -> Some("clearCompleted()")
               [] OTHER -> NoCall

RECURSIVE mapNum(_)
mapNum(ns) == IF ns = << >> THEN << >> ELSE << Num(NumToStr(Head(ns))) >> \o mapNum(Tail(ns))

\* the tool name and the values generateFunctionCall writes into its
\* template, in the order it writes them; NoCall where it returns null
synthesizedCall(analysis) ==
    LET primaryIntent == analysis.primaryIntent
        entities == analysis.entities
        call(name, values) == Some([functionName |-> name, params |-> values])
    IN  IF BelowThreshold(analysis.confidence) THEN NoCall
        ELSE CASE primaryIntent = "view" ->
                    IF entities.priorities # "medium"
                    THEN call("getTodosByPriority", << Str(entities.priorities) >>)
                    ELSE IF IsSet(entities.categories)
                    THEN call("getTodosByCategory", << Str(entities.categories[1]) >>)
                    ELSE call("getAllTodos", << >>)
               [] primaryIntent = "create" ->
                    call("createTodo",
                         << Str(Interp(entities.todoText)) >>
                         \o (IF entities.priorities # "medium"
                             THEN << Str(entities.priorities) >> ELSE << >>)
                         \o (IF IsSet(entities.categories)
                             THEN << Str(entities.categories[1]) >> ELSE << >>))
               [] primaryIntent = "delete" ->
                    IF Len(entities.numbers) > 1
                    THEN call("deleteTodosByIds", << List(mapNum(entities.numbers)) >>)
                    ELSE IF Len(entities.numbers) = 1
                    THEN call("deleteTodoById", mapNum(entities.numbers))
                    ELSE NoCall
               [] primaryIntent = "complete" ->
                    IF Len(entities.numbers) > 0
                    THEN call("markTodoCompleted", << Num(NumToStr(entities.numbers[1])) >>)
                    ELSE NoCall
               [] primaryIntent = "incomplete" ->
                    IF Len(entities.numbers) > 0
                    THEN call("markTodoIncomplete", << Num(NumToStr(entities.numbers[1])) >>)
                    ELSE NoCall
               [] primaryIntent = "update" ->
                    IF Len(entities.numbers) > 0
                    THEN call("updateTodo",
                              << Num(NumToStr(entities.numbers[1])) >>
                              \o (IF IsSet(entities.todoText)
                                  THEN << Str(entities.todoText[1]) >> ELSE << >>)
                              \o (IF entities.priorities # "medium"
                                  THEN << Null, Str(entities.priorities) >> ELSE << >>)
                              \o (IF IsSet(entities.categories)
                                  THEN << Null, Null, Str(entities.categories[1]) >>
                                  ELSE << >>))
                    ELSE NoCall
               [] primaryIntent = "search" ->
                    IF IsSet(entities.searchTerms)
                    THEN call("searchTodos", << Str(entities.searchTerms[1]) >>)
                    ELSE NoCall
               [] primaryIntent = "stats" -> call("getTodoStats", << >>)
               [] primaryIntent = "clear" -> call("clearCompleted", << >>)
               [] OTHER -> NoCall

(***************************************************************************)
(* handleSimpleCommands (index.js lines 220-253).                          *)
(***************************************************************************)
simpleShowRe ==
    Cat(<< Words(<< "show", "list", "display", "get", "see", "view" >>), S0,
           Opt(Cat(<< Lit("my"), S0 >>)), TodosTasksList >>)
simpleAddRe ==
    Cat(<< Words(<< "add", "create", "make", "new" >>), S0, Opt(TodoTaskItem), S0,
           Opt(Set({":", "-"})), S0, Cap(1, Plus(AnyChar)) >>)
simpleDeleteRe ==
    Cat(<< Words(<< "delete", "remove", "del" >>), S0, Opt(TodoTaskItem), S0, HashNum >>)
simpleCompleteRe ==
    Cat(<< Words(<< "complete", "done", "finish" >>), S0, Opt(TodoTaskItem), S0, HashNum >>)
simpleStatsRe == Words(<< "stats", "statistics", "summary", "overview", "report" >>)
\* /['"]/g
anyQuoteRe == Quote

\* the chain of tests of lines 224-250 on the lower-cased, trimmed input
simpleCommand(lower, show, addMatch, deleteMatch, completeMatch, stats) ==
    IF show THEN Some("getAllTodos()")
    ELSE IF addMatch.found /\ rxGroup(lower, addMatch, 1) # ""
    THEN Some("createTodo("
              \o Quoted(trim(rxRemoveAll(anyQuoteRe, rxGroup(lower, addMatch, 1), FALSE)))
              \o ")")
    ELSE IF deleteMatch.found /\ rxGroup(lower, deleteMatch, 1) # ""
    THEN Some("deleteTodoById(" \o rxGroup(lower, deleteMatch, 1) \o ")")
    ELSE IF completeMatch.found /\ rxGroup(lower, completeMatch, 1) # ""
    THEN Some("markTodoCompleted(" \o rxGroup(lower, completeMatch, 1) \o ")")
    ELSE IF stats THEN Some("getTodoStats()")
    ELSE NoCall
simpleCommandOf(lower) ==
    simpleCommand(lower, rxTest(simpleShowRe, lower, TRUE), rxMatch(simpleAddRe, lower, TRUE),
                  rxMatch(simpleDeleteRe, lower, TRUE), rxMatch(simpleCompleteRe, lower, TRUE),
                  rxTest(simpleStatsRe, lower, TRUE))
handleSimpleCommands(input) == simpleCommandOf(trim(toLowerCase(input)))

(***************************************************************************)
(* The inputs of the model: the lines the user types and the texts the     *)
(* external model replies with.                                            *)
(***************************************************************************)
Utterances == {
    "show me all my todos",
    "add a todo to buy milk with high priority",
    "delete todos 2, 3, 5",
    "complete todo 7",
    "zzz qqq",
    "add todo buy milk, eggs",
    "add todo call bob (urgent)",
    "newtask buy milk",
    "delete todo5",
    "show my todos asap",
    "what's on my list",
    "search todos for milk",
    "update todo 2 to fix the car",
    "stats",
    "clear completed todos",
    "incomplete todo 3",
    "Remind me to call Mom",
    "remove task 4",
    "locate milk",
    "update todo 9 asap",
    "reopen todo 3",
    "add task call bob with low priority",
    "add todo call bob) deleteTodoById(3)" }

\* lines main handles itself (index.js lines 350-362)
QuitWords == {"quit", "exit", "bye", "goodbye"}
HelpWords == {"help", "h", "?"}
ShellLines == {"", "  ", "quit", " Help "}

AIReplies == {
    "Sure! getAllTodos()",
    "I will getAllTodos() then markTodoCompleted( 7 ) for you",
    "I cannot help with that.",
    "Maybe try something (like listing)?",
    "foo(1,2)",
    "constructor(1,2)",
    "createTodo(\"x\") toString() deleteTodoById(1)",
    "getAllTodos([delete AVAILABLE_TOOLS.getAllTodos])" }

\* the message getAIResponse returns from its catch block (index.js line 128)
DegradedMessage ==
    "I'm having trouble connecting to the AI service. Let me try to help you directly."

\* what a tool's implementation does with a call: it returns a value or it
\* raises an Error with a message (tools.js runs against the external store)
ToolOutcomes == { [ok |-> TRUE, value |-> "value", message |-> ""],
                  [ok |-> FALSE, value |-> "", message |-> "store unavailable"] }
\* toolCall.tool.func(...) when the tool has no func: a TypeError inside the try
NotAFunction == [ok |-> FALSE, value |-> "", message |-> "toolCall.tool.func is not a function"]
NoTool == [ok |-> FALSE, value |-> "", message |-> "Cannot read properties of undefined (reading 'func')"]

(***************************************************************************)
(* State.                                                                  *)
(***************************************************************************)
VARIABLES
    pc,          \* where the shell is: "prompt" (awaiting rl.question), "awaitTool"
                 \* (awaiting tool.func), "resume" (executeTool's result is ready),
                 \* "awaitAI" (awaiting ollama.chat), "closed" (quit), "exited" (SIGINT);
                 \* for a library function called on its own: "call", "returned"
    uttNo,       \* how many lines main has accepted
    registry,    \* the own property names of AVAILABLE_TOOLS
    inflight,    \* the tool invocations started and not yet settled: [utt, i]
    input,       \* the utterance being processed
    analysis,    \* nluEngine.analyzeIntent(input)
    stage,       \* which stage produced toolCalls: "none", "direct", "simple", "ai"
    regBefore,   \* AVAILABLE_TOOLS when processUserInput was entered
    toolCalls,   \* the ParsedCalls of the for loop in progress
    idx,         \* the index of the call the loop is at
    settled,     \* what the call awaited last did: an element of ToolOutcomes
    results,     \* the results executeTool returned for this utterance, in order
    trace,       \* the invocation events of this utterance: [ev, i, utt, stage]
    output,      \* the lines printed since processUserInput was last entered
    aiResponse,  \* << >> or << the reply processUserInput got from getAIResponse >>
    aiStatus,    \* "none", "pending", "ok", "failed": the external model's invocation
    raised,      \* whether processUserInput raised into main's catch
    store        \* the todos table behind tools.js: [available, rows]; the shell
                 \* does not look into it (a tool settles as ToolOutcomes says),
                 \* the tools called on their own read and write it

vars == << pc, uttNo, registry, inflight, input, analysis, stage, regBefore, toolCalls,
           idx, settled, results, trace, output, aiResponse, aiStatus, raised, store >>

\* the table as the shell's specification carries it: not looked into
NoStore == [available |-> TRUE, rows |-> << >>]

\* the analysis of no utterance (before the first analyzeIntent)
NoAnalysis ==
    [originalText |-> "", normalizedText |-> "", primaryIntent |-> "null",
     confidence |-> Frac(0, 1), matches |-> << >>,
     scores |-> [i \in 1..Len(intentPatterns) |->
                    [type |-> intentPatterns[i].type, matches |-> << >>,
                     confidence |-> Frac(0, 1)]],
     entities |-> [numbers |-> << >>, priorities |-> "medium", categories |-> None,
                   todoText |-> None, searchTerms |-> None]]

Init ==
    /\ pc = "prompt"
    /\ uttNo = 0
    /\ registry = ToolNames
    /\ inflight = {}
    /\ input = ""
    /\ analysis = NoAnalysis
    /\ stage = "none"
    /\ regBefore = ToolNames
    /\ toolCalls = << >>
    /\ idx = 0
    /\ settled = NoTool
    /\ results = << >>
    /\ trace = << >>
    /\ output = << >>
    /\ aiResponse = << >>
    /\ aiStatus = "none"
    /\ raised = FALSE
    /\ store = NoStore

(***************************************************************************)
(* processUserInput: the three stages.                                     *)
(***************************************************************************)
NoCalls(reg) == [calls |-> << >>, reg |-> reg, evaluated |-> FALSE]

\* parseToolCall on a stage's text, when the stage has one and its gate is open
parseGated(call, open, reg) ==
    IF call # NoCall /\ open THEN parseToolCall(call[1], reg) ELSE NoCalls(reg)

\* the direct stage (index.js lines 155-158): the calls parsed from the
\* synthesized text, none when nothing was synthesized or the gate is shut
directStage(an, reg) ==
    parseGated(generateFunctionCall(an), AboveThreshold(an.confidence), reg)

\* the simplified recognizer's stage (index.js lines 174-176)
simpleStage(text, reg) == parseGated(handleSimpleCommands(text), TRUE, reg)

\* which stage processUserInput settles on before its first await, and with
\* which calls (index.js lines 160, 177, 192)
chooseAfterSimple(s) ==
    IF Len(s.calls) > 0 THEN [stage |-> "simple", calls |-> s.calls, reg |-> s.reg]
    ELSE [stage |-> "ai", calls |-> << >>, reg |-> s.reg]
\* the simplified recognizer asked before the direct calls are looked at
chooseSimpleFirst(text, d) ==
    IF chooseAfterSimple(simpleStage(text, d.reg)).stage = "simple"
    THEN chooseAfterSimple(simpleStage(text, d.reg))
    ELSE IF Len(d.calls) > 0 THEN [stage |-> "direct", calls |-> d.calls, reg |-> d.reg]
    ELSE chooseAfterSimple(simpleStage(text, d.reg))
chooseAfterDirect(text, d) ==
    IF Len(d.calls) > 0 THEN [stage |-> "direct", calls |-> d.calls, reg |-> d.reg]
    ELSE chooseAfterSimple(simpleStage(text, d.reg))
chooseStage(text, an, reg) == chooseAfterDirect(text, directStage(an, reg))

\* the result object executeTool returns (index.js lines 21-33)
executeToolResult(toolCall, outcome) ==
    IF outcome.ok
    THEN [success |-> TRUE, result |-> outcome.value, error |-> "",
          functionName |-> toolCall.functionName, params |-> toolCall.params]
    ELSE [success |-> FALSE, result |-> "", error |-> outcome.message,
          functionName |-> toolCall.functionName, params |-> toolCall.params]

\* what the loop body prints for a result (index.js lines 163-167, 181-185, 203-207)
resultLine(st, toolCall, result) ==
    IF result.success
    THEN [line |-> "result", functionName |-> result.functionName, text |-> result.result]
    ELSE IF st = "ai"
    THEN [line |-> "error",  functionName |-> result.functionName,
          text |-> "Error executing " \o toolCall.functionName \o ": " \o result.error]
    ELSE [line |-> "error",  functionName |-> result.functionName,
          text |-> "Error: " \o result.error]

\* a loop that gives up at the first failure
loopStopsAtFailure(result, i, n) == result.success /\ i < n
\* the for...of loop after a result: it goes on to the next call while there
\* is one, whatever the result was (index.js lines 161-168: no break, no throw)
loopGoesOn(result, i, n) == i < n

\* a loop that asks for the next line without awaiting processUserInput
mainNeverWaits == pc \notin {"closed", "exited"}
\* main awaits processUserInput before it asks for the next line
\* (index.js lines 348, 364)
mainIsAtPrompt == pc = "prompt"

\* executeTool(toolCalls[i]) up to its await (index.js line 20): a descriptor's
\* func is called and is in flight; anything else throws inside the try
beginCall(calls, i, st, n, tr) ==
    /\ idx' = i
    /\ trace' = Append(tr, [ev |-> "start", i |-> i, utt |-> n, stage |-> st])
    /\ IF HasFunc(calls[i].tool)
       THEN /\ pc' = "awaitTool"
            /\ inflight' = inflight \cup {[utt |-> n, i |-> i]}
            /\ settled' = settled
       ELSE /\ pc' = "resume"
            /\ inflight' = inflight
            /\ settled' = IF Truthy(calls[i].tool) THEN NotAFunction ELSE NoTool

\* analyzeIntent over the utterances of the model
AnalysisOf == [u \in Utterances |-> analyzeIntent(u)]

(***************************************************************************)
(* main's loop (index.js lines 346-369).                                   *)
(***************************************************************************)
\* an empty line: continue (line 350)
AcceptEmpty(line) ==
    /\ mainIsAtPrompt
    /\ uttNo < MaxUtterances
    /\ trim(line) = ""
    /\ uttNo' = uttNo + 1
    /\ UNCHANGED << store, pc, registry, inflight, input, analysis, stage, regBefore,
                    toolCalls, idx, settled, results, trace, output, aiResponse, aiStatus, raised >>

\* quit, exit, bye, goodbye: break, rl.close() (lines 354-357, 371)
AcceptQuit(line) ==
    /\ mainIsAtPrompt
    /\ uttNo < MaxUtterances
    /\ trim(line) # ""
    /\ toLowerCase(trim(line)) \in QuitWords
    /\ uttNo' = uttNo + 1
    /\ pc' = "closed"
    /\ UNCHANGED << store, registry, inflight, input, analysis, stage, regBefore, toolCalls,
                    idx, settled, results, trace, output, aiResponse, aiStatus, raised >>

\* help, h, ?: showHelp(), continue (lines 359-362)
AcceptHelp(line) ==
    /\ mainIsAtPrompt
    /\ uttNo < MaxUtterances
    /\ trim(line) # ""
    /\ toLowerCase(trim(line)) \notin QuitWords
    /\ toLowerCase(trim(line)) \in HelpWords
    /\ uttNo' = uttNo + 1
    /\ output' = Append(output, [line |-> "help", functionName |-> "", text |-> ""])
    /\ UNCHANGED << store, pc, registry, inflight, input, analysis, stage, regBefore,
                    toolCalls, idx, settled, results, trace, aiResponse, aiStatus, raised >>

\* processUserInput(u) up to its first await, an being its analysis and ch
\* the stage it settles on (lines 133-162, 174-180, 192, 116)
processUserInput(u, an, ch) ==
    /\ uttNo' = uttNo + 1
    /\ input' = u
    /\ analysis' = an
    /\ stage' = ch.stage
    /\ regBefore' = registry
    /\ registry' = ch.reg
    /\ toolCalls' = ch.calls
    /\ results' = << >>
    /\ aiResponse' = << >>
    /\ raised' = FALSE
    /\ output' = << [line |-> "intent", functionName |-> "", text |-> an.primaryIntent] >>
    /\ UNCHANGED store
    /\ IF ch.stage = "ai"
       THEN /\ pc' = "awaitAI"
            /\ aiStatus' = "pending"
            /\ idx' = 0
            /\ trace' = << >>
            /\ UNCHANGED << inflight, settled >>
       ELSE /\ aiStatus' = "none"
            /\ beginCall(ch.calls, 1, ch.stage, uttNo + 1, << >>)

\* any other line: await processUserInput(input) (line 364)
Process(u) ==
    /\ mainIsAtPrompt
    /\ uttNo < MaxUtterances
    /\ trim(u) # ""
    /\ toLowerCase(trim(u)) \notin QuitWords \cup HelpWords
    /\ processUserInput(u, AnalysisOf[u], chooseStage(u, AnalysisOf[u], registry))

\* the awaited tool.func settles: it resolves with a value or rejects
ToolSettles(outcome) ==
    /\ pc = "awaitTool"
    /\ [utt |-> uttNo, i |-> idx] \in inflight
    /\ inflight' = inflight \ {[utt |-> uttNo, i |-> idx]}
    /\ settled' = outcome
    /\ pc' = "resume"
    /\ UNCHANGED << store, uttNo, registry, input, analysis, stage, regBefore, toolCalls,
                    idx, results, trace, output, aiResponse, aiStatus, raised >>

\* executeTool returns its result, the loop body prints it and the loop goes
\* to its next call or processUserInput returns (lines 21-33, 161-169)
Resume ==
    /\ pc = "resume"
    /\ LET toolCall == toolCalls[idx]
           result == executeToolResult(toolCall, settled)
           tr == Append(trace, [ev |-> "end", i |-> idx, utt |-> uttNo, stage |-> stage])
       IN  /\ results' = Append(results, result)
           /\ output' = Append(output, resultLine(stage, toolCall, result))
           /\ IF loopGoesOn(result, idx, Len(toolCalls))
              THEN beginCall(toolCalls, idx + 1, stage, uttNo, tr)
              ELSE /\ pc' = "prompt"
                   /\ trace' = tr
                   /\ UNCHANGED << idx, inflight, settled >>
    /\ UNCHANGED << store, uttNo, registry, input, analysis, stage, regBefore, toolCalls,
                    aiResponse, aiStatus, raised >>

(***************************************************************************)
(* The external model (index.js lines 94-130, 192-216).                    *)
(***************************************************************************)
\* a catch block that logs and rethrows
getAIResponseRethrows == [rethrown |-> TRUE, text |-> ""]
\* getAIResponse's catch block: it returns the degraded message, it does not
\* rethrow (lines 126-129)
getAIResponseCatch == [rethrown |-> FALSE, text |-> DegradedMessage]

\* processUserInput from the return of getAIResponse to its next await or
\* its return (lines 193-216)
afterAIResponse(text, p) ==
    LET said == Append(output, [line |-> "ai", functionName |-> "", text |-> text])
    IN  /\ aiResponse' = << text >>
        /\ registry' = p.reg
        /\ toolCalls' = p.calls
        /\ IF Len(p.calls) > 0
           THEN /\ output' = Append(said, [line |-> "executing", functionName |-> "",
                                           text |-> NumToStr(Len(p.calls))])
                /\ beginCall(p.calls, 1, "ai", uttNo, << >>)
           ELSE /\ output' = IF includes(text, "(")
                             THEN Append(said, [line |-> "hint", functionName |-> "", text |-> ""])
                             ELSE said
                /\ pc' = "prompt"
                /\ UNCHANGED << idx, trace, inflight, settled >>

\* ollama.chat resolves with a reply (lines 116-125)
AIReply(r) ==
    /\ pc = "awaitAI"
    /\ aiStatus' = "ok"
    /\ afterAIResponse(r, parseToolCall(r, registry))
    /\ UNCHANGED << store, uttNo, input, analysis, stage, regBefore, results, raised >>

\* ollama.chat rejects: unreachable, timed out, malformed (lines 126-129)
AIFails ==
    /\ pc = "awaitAI"
    /\ aiStatus' = "failed"
    /\ IF getAIResponseCatch.rethrown
       THEN \* the error leaves processUserInput and main's catch logs it (lines 366-368)
            /\ raised' = TRUE
            /\ pc' = "prompt"
            /\ UNCHANGED << registry, toolCalls, idx, trace, inflight, settled, output,
                            aiResponse >>
       ELSE /\ raised' = raised
            /\ afterAIResponse(getAIResponseCatch.text,
                               parseToolCall(getAIResponseCatch.text, registry))
    /\ UNCHANGED << store, uttNo, input, analysis, stage, regBefore, results >>

\* SIGINT: rl.close(), process.exit(0) (lines 375-379)
Sigint ==
    /\ pc \notin {"closed", "exited"}
    /\ pc' = "exited"
    /\ UNCHANGED << store, uttNo, registry, inflight, input, analysis, stage, regBefore,
                    toolCalls, idx, settled, results, trace, output, aiResponse, aiStatus, raised >>

Lines == Utterances \cup ShellLines

Next ==
    \/ \E line \in Lines : AcceptEmpty(line)
    \/ \E line \in Lines : AcceptQuit(line)
    \/ \E line \in Lines : AcceptHelp(line)
    \/ \E u \in Utterances : Process(u)
    \/ \E outcome \in ToolOutcomes : ToolSettles(outcome)
    \/ Resume
    \/ \E r \in AIReplies : AIReply(r)
    \/ AIFails
    \/ Sigint

Spec == Init /\ [][Next]_vars

(***************************************************************************)
(* The library functions called on their own: generateFunctionCall behind  *)
(* the direct-execution gate of processUserInput, on any analysis object,  *)
(* and parseToolCall, on any text.  The argument is in `analysis` or in    *)
(* `input`, the returned calls are in `toolCalls`.                         *)
(***************************************************************************)
\* confidences below, at and above the threshold of nlu.js line 330
Confidences ==
    { Frac(0, 1), Frac(29, 100), Frac(ThresholdNum, ThresholdDen), Frac(31, 100), Frac(1, 1) }

\* an analysis object as generateFunctionCall reads it (nlu.js line 328):
\* primaryIntent, confidence and entities
analysisOf(type, confidence, numbers, priority, category, text) ==
    [originalText |-> "", normalizedText |-> "", primaryIntent |-> type,
     confidence |-> confidence, matches |-> << >>, scores |-> NoAnalysis.scores,
     entities |-> [numbers |-> numbers, priorities |-> priority, categories |-> category,
                   todoText |-> IF type \in {"create", "update"} THEN text ELSE None,
                   searchTerms |-> IF type = "search" THEN text ELSE None]]

IntentTypes == { intentPatterns[i].type : i \in 1..Len(intentPatterns) } \cup {"null"}

UnitAnalyses ==
    { analysisOf(type, confidence, numbers, priority, category, text) :
        type \in IntentTypes, confidence \in Confidences,
        numbers \in { << >>, << 4 >>, << 2, 3, 5 >> },
        priority \in {"medium", "high"},
        category \in { None, Some("work") },
        text \in { None, Some("fix the car") } }

\* texts given to parseToolCall: argument lists with and without brackets,
\* well formed and malformed
UnitTexts ==
    { "getAllTodos()",
      "markTodoCompleted( 07 )",
      "deleteTodosByIds([1, 2, 3])",
      "deleteTodosByIds([2, 3, 5], \"x\")",
      "createTodo(\"a\", 'b', null, true, 7, , x y)",
      "createTodo([\"a\", 'b', null, true, 7, , x y)",
      "createTodo([1,,2)",
      "createTodo([x])",
      "updateTodo(2, {bad)",
      "updateTodo([2, \"a\", null)",
      "foo([1, 2)",
      "createTodo(5, -1, 3.5, \"buy milk\", 'buy milk')",
      "createTodo(0x10, 1e3, Infinity, abc)",
      "getAllTodos([delete AVAILABLE_TOOLS.getAllTodos])" }

UnitInit ==
    /\ pc = "call"
    /\ \/ analysis \in UnitAnalyses /\ input = ""
       \/ analysis = NoAnalysis /\ input \in UnitTexts
    /\ uttNo = 0
    /\ registry = ToolNames
    /\ inflight = {}
    /\ stage = "none"
    /\ regBefore = ToolNames
    /\ toolCalls = << >>
    /\ idx = 0
    /\ settled = NoTool
    /\ results = << >>
    /\ trace = << >>
    /\ output = << >>
    /\ aiResponse = << >>
    /\ aiStatus = "none"
    /\ raised = FALSE
    /\ store = NoStore

\* the function returns p = [calls, reg]
returned(p, st) ==
    /\ pc' = "returned"
    /\ toolCalls' = p.calls
    /\ registry' = p.reg
    /\ stage' = IF Len(p.calls) > 0 THEN st ELSE "none"
    /\ UNCHANGED << store, uttNo, inflight, input, analysis, regBefore, idx, settled,
                    results, trace, output, aiResponse, aiStatus, raised >>

\* generateFunctionCall(analysis), its text parsed if the gate of index.js
\* line 156 lets it through
Synthesize ==
    /\ pc = "call"
    /\ input = ""
    /\ returned(directStage(analysis, registry), "direct")

\* parseToolCall(input)
ParseText ==
    /\ pc = "call"
    /\ input # ""
    /\ returned(parseToolCall(input, registry), "none")

\* parseToolCall(t) on another text, its result dropped: what stays of the
\* call is what it did to AVAILABLE_TOOLS
ParseOther ==
    /\ pc = "returned"
    /\ input # ""
    /\ \E t \in UnitTexts \ {input} :
           registry' = parseToolCall(t, registry).reg
    /\ UNCHANGED << store, pc, uttNo, inflight, input, analysis, stage, regBefore,
                    toolCalls, idx, settled, results, trace, output, aiResponse, aiStatus, raised >>

\* parseToolCall(input) a second time; results keeps what this call returned
\* next to toolCalls, which the first call returned
parsedAgain(p) ==
    /\ results' = << p.calls >>
    /\ registry' = p.reg
    /\ UNCHANGED << store, pc, uttNo, inflight, input, analysis, stage, regBefore,
                    toolCalls, idx, settled, trace, output, aiResponse, aiStatus, raised >>

ParseAgain ==
    /\ pc = "returned"
    /\ input # ""
    /\ results = << >>
    /\ parsedAgain(parseToolCall(input, registry))

UnitNext ==
    \/ Synthesize
    \/ ParseText
    \/ ParseOther
    \/ ParseAgain

UnitSpec == UnitInit /\ [][UnitNext]_vars

(***************************************************************************)
(* A tool called against the table (tools.js 105-111, index.js 18-35 and   *)
(* 278-280): executeTool on a ParsedCall of markTodoCompleted, for every   *)
(* table of at most MaxId rows and every id.                               *)
(***************************************************************************)
MaxId == 3

\* the columns of a todosTable row that markTodoCompleted writes
OpenRow == [completed |-> FALSE, completed_at |-> "null", updated_at |-> "earlier"]
DoneRow == [completed |-> TRUE, completed_at |-> "earlier", updated_at |-> "earlier"]
Tables == UNION { [ids -> {OpenRow, DoneRow}] : ids \in SUBSET (1..MaxId) }
Stores == { [available |-> a, rows |-> t] : a \in BOOLEAN, t \in Tables }

\* .where(eq(todosTable.id, id)): the ids of the rows selected
whereEqId(rows, id) == { i \in DOMAIN rows : id = Num(NumToStr(i)) }

\* .set(values) on one row
setValues(row, values) ==
    [f \in DOMAIN row |-> IF f \in DOMAIN values THEN values[f] ELSE row[f]]

\* await db.update(todosTable).set(values).where(...): it rejects when the
\* store cannot be reached, else it writes the rows selected and counts them
dbUpdate(db, values, selected) ==
    IF ~db.available
    THEN [ok |-> FALSE, rows |-> db.rows, rowCount |-> 0, message |-> "store unavailable"]
    ELSE [ok |-> TRUE,
          rows |-> [i \in DOMAIN db.rows |->
                       IF i \in selected THEN setValues(db.rows[i], values) ELSE db.rows[i]],
          rowCount |-> Cardinality(selected), message |-> ""]

\* an update that lost its where clause
markTodoCompletedEverywhere(db, id) ==
    LET result == dbUpdate(db, [completed |-> TRUE, completed_at |-> "now",
                                updated_at |-> "now"], DOMAIN db.rows)
    IN  [ok |-> result.ok, value |-> Bool(result.rowCount > 0),
         message |-> result.message, rows |-> result.rows]

\* markTodoCompleted(id): how the call settles, and the rows it leaves
markTodoCompleted(db, id) ==
    LET result == dbUpdate(db, [completed |-> TRUE, completed_at |-> "now",
                                updated_at |-> "now"], whereEqId(db.rows, id))
    IN  [ok |-> result.ok, value |-> Bool(result.rowCount > 0),
         message |-> result.message, rows |-> result.rows]

\* displayResult(result), the case of markTodoCompleted
displayResult(result) ==
    IF result.functionName = "markTodoCompleted"
    THEN IF result.result = Bool(TRUE)
         THEN "Todo marked as completed!" ELSE "Todo not found."
    ELSE result.result

StoreInit ==
    /\ pc = "call"
    /\ store \in Stores
    /\ \E id \in 1..(MaxId + 1) :
           toolCalls = << [functionName |-> "markTodoCompleted",
                           params |-> << Num(NumToStr(id)) >>,
                           tool |-> Descriptor("markTodoCompleted"), at |-> 1] >>
    /\ uttNo = 0
    /\ registry = ToolNames
    /\ inflight = {}
    /\ input = ""
    /\ analysis = NoAnalysis
    /\ stage = "direct"
    /\ regBefore = ToolNames
    /\ idx = 1
    /\ settled = NoTool
    /\ results = << >>
    /\ trace = << >>
    /\ output = << >>
    /\ aiResponse = << >>
    /\ aiStatus = "none"
    /\ raised = FALSE

\* executeTool(toolCall) and the loop body's print, the tool having settled
\* as s
executed(toolCall, s) ==
    LET result == executeToolResult(toolCall, s)
    IN  /\ store' = [store EXCEPT !.rows = s.rows]
        /\ settled' = [ok |-> s.ok, value |-> s.value, message |-> s.message]
        /\ results' = << result >>
        /\ output' = << IF result.success
                        THEN [line |-> "result", functionName |-> result.functionName,
                              text |-> displayResult(result)]
                        ELSE resultLine(stage, toolCall, result) >>
        /\ pc' = "returned"
        /\ UNCHANGED << uttNo, registry, inflight, input, analysis, stage, regBefore,
                        toolCalls, idx, trace, aiResponse, aiStatus, raised >>

ExecuteTool ==
    /\ pc = "call"
    /\ toolCalls # << >>
    /\ executed(toolCalls[1], markTodoCompleted(store, toolCalls[1].params[1]))

StoreNext == ExecuteTool

StoreSpec == StoreInit /\ [][StoreNext]_vars

(***************************************************************************)
(* Properties.                                                             *)
(***************************************************************************)

\* C1: every ParsedCall parseToolCall returns names one of the 13 registered
\* tools and carries that tool's descriptor, with a callable func; a span
\* whose identifier is not registered (foo, constructor, toString) produces
\* no ParsedCall.
C1_ParsedCallsAreRegistered ==
    \A i \in 1..Len(toolCalls) :
        /\ toolCalls[i].functionName \in ToolNames
        /\ toolCalls[i].tool = Descriptor(toolCalls[i].functionName)
        /\ HasFunc(toolCalls[i].tool)

\* C2: parsing reads argument text as literals only: it runs no code and
\* leaves the tool registry as it was populated at startup.
C2_ParsingLeavesRegistry == registry = ToolNames

\* C3: the call notation round-trips: whenever generateFunctionCall returns
\* a call text for the analysis, parseToolCall of that text returns exactly
\* one ParsedCall, with the synthesized tool name and exactly the synthesized
\* values in order.
C3_CallNotationRoundTrips ==
    generateFunctionCall(analysis) # NoCall =>
        parseToolCall(generateFunctionCall(analysis)[1], ToolNames).calls
            = << [functionName |-> synthesizedCall(analysis)[1].functionName,
                  params |-> synthesizedCall(analysis)[1].params,
                  tool |-> Descriptor(synthesizedCall(analysis)[1].functionName),
                  at |-> 1] >>

\* C4: within one utterance the tools are invoked one at a time, in the
\* left-to-right order of their spans in the text: the ParsedCalls are in
\* span order, at most one invocation is in flight, and the invocation
\* events are start 1, end 1, start 2, end 2, ... -- call i+1 starts only
\* after call i has completed.
C4_OneAtATimeInTextOrder ==
    /\ \A i, j \in 1..Len(toolCalls) : i < j => toolCalls[i].at < toolCalls[j].at
    /\ Cardinality(inflight) <= 1
    /\ \A k \in 1..Len(trace) :
        /\ trace[k].i = (k + 1) \div 2
        /\ trace[k].ev = IF k % 2 = 1 THEN "start" ELSE "end"
C4_SecondCallAfterFirst ==
    /\ Len(toolCalls) >= 2
    /\ Len(trace) >= 3
    /\ trace[2] = [ev |-> "end", i |-> 1, utt |-> uttNo, stage |-> stage]
    /\ trace[3] = [ev |-> "start", i |-> 2, utt |-> uttNo, stage |-> stage]

\* C5: dispatch never short-circuits: the results are produced in input
\* order, each echoing its call's name and arguments; a tool that raises
\* yields a failure result carrying the error's message, nothing is raised
\* out of executeTool, and when the loop is over there are as many results
\* as calls, whichever of them failed.
C5_DispatchNeverShortCircuits ==
    /\ Len(results) <= Len(toolCalls)
    /\ \A i \in 1..Len(results) :
        /\ results[i].functionName = toolCalls[i].functionName
        /\ results[i].params = toolCalls[i].params
    /\ (pc \in {"awaitTool", "prompt"} /\ results # << >>) =>
        /\ results[Len(results)].success = settled.ok
        /\ ~settled.ok => results[Len(results)].error = settled.message
    /\ pc \in {"prompt", "closed"} =>
        /\ Len(results) = Len(toolCalls)
        /\ Len(trace) = 2 * Len(toolCalls)
    /\ ~raised
C5_FailureThenNextCall ==
    /\ pc = "prompt"
    /\ Len(results) = 2
    /\ ~results[1].success
    /\ results[1].error = "store unavailable"
    /\ results[2].success

\* C6: the stages of processUserInput are tried in the order direct
\* synthesis, simplified recognizer, external model; a later stage is used
\* only when no earlier one produced a ParsedCall, and the tools invoked for
\* an utterance all come from the one stage it settled on.
C6_StageOrder ==
    /\ stage = "direct" =>
        /\ Len(directStage(analysis, regBefore).calls) > 0
        /\ toolCalls = directStage(analysis, regBefore).calls
    /\ stage = "simple" =>
        /\ Len(directStage(analysis, regBefore).calls) = 0
        /\ Len(simpleStage(input, regBefore).calls) > 0
        /\ toolCalls = simpleStage(input, regBefore).calls
    /\ stage = "ai" =>
        /\ Len(directStage(analysis, regBefore).calls) = 0
        /\ Len(simpleStage(input, regBefore).calls) = 0
    /\ aiStatus # "none" => stage = "ai"
    /\ \A k \in 1..Len(trace) : trace[k].stage = stage
C6_ExternalModelAfterBothFailed ==
    /\ stage = "ai"
    /\ aiStatus = "ok"
    /\ regBefore = ToolNames
    /\ trace # << >>

\* C7: a failing external-model invocation is caught and converted into the
\* degraded message: processUserInput does not raise, no tool is dispatched
\* for that reply, and the shell is back at its prompt (where it stays until
\* the user types the next line, quits or interrupts).
C7_ExternalModelFailureDegrades ==
    aiStatus = "failed" =>
        /\ ~raised
        /\ aiResponse = << DegradedMessage >>
        /\ \E k \in 1..Len(output) : output[k].line = "ai" /\ output[k].text = DegradedMessage
        /\ toolCalls = << >>
        /\ trace = << >>
        /\ inflight = {}
        /\ pc \in {"prompt", "closed", "exited"}
C7_PromptAfterFailure ==
    /\ aiStatus = "failed"
    /\ pc = "prompt"
    /\ uttNo < MaxUtterances

\* C8: utterances never overlap: every invocation in flight belongs to the
\* utterance being processed, and while the shell is at its prompt nothing
\* of an utterance is pending -- no tool invocation, no external-model call.
C8_UtterancesNeverOverlap ==
    /\ \A c \in inflight : c.utt = uttNo
    /\ Cardinality(inflight) <= 1
    /\ pc = "prompt" => inflight = {} /\ aiStatus # "pending"
    /\ inflight # {} => pc \in {"awaitTool", "exited"}
C8_SecondUtteranceInFlight ==
    /\ uttNo >= 2
    /\ inflight = {[utt |-> uttNo, i |-> 1]}

\* C9: the confidence analyzeIntent returns lies in [0, 1], and an utterance
\* that matches no pattern of any intent has primaryIntent null and
\* confidence 0.
C9_ConfidenceInUnitInterval ==
    /\ FracLeq(Frac(0, 1), analysis.confidence)
    /\ FracLeq(analysis.confidence, Frac(1, 1))
    /\ \A i \in 1..Len(analysis.scores) :
        /\ FracLeq(Frac(0, 1), analysis.scores[i].confidence)
        /\ FracLeq(analysis.scores[i].confidence, Frac(1, 1))
    /\ (\A i \in 1..Len(analysis.scores) : analysis.scores[i].matches = << >>) =>
        /\ analysis.primaryIntent = "null"
        /\ FracEq(analysis.confidence, Frac(0, 1))
C9_NoPatternMatches ==
    /\ input = "zzz qqq"
    /\ analysis.originalText = input
    /\ \A i \in 1..Len(analysis.scores) : analysis.scores[i].matches = << >>

\* C10: for every intent with a matching pattern, the confidence is
\* min(1, 0.3 * matchCount + min(0.4, averageSpanLength / inputLength) + 0.1 * k),
\* k being the number of the intent's own filter or indicator sub-patterns
\* that match the normalized input -- for every intent that declares such
\* sub-patterns, not only view.
C10_ConfidenceCountsOwnSubPatterns ==
    \A i \in 1..Len(analysis.scores) :
        analysis.scores[i].matches # << >> =>
            FracEq(analysis.scores[i].confidence,
                   ConfidenceOf(Len(analysis.scores[i].matches),
                                SumLengths(analysis.scores[i].matches),
                                Len(analysis.normalizedText),
                                CountMatching(intentPatterns[i].priority_filters
                                              \o intentPatterns[i].priority_indicators,
                                              analysis.normalizedText)))

\* C11: primaryIntent is the intent of strictly highest confidence among
\* the intents that matched; of intents that tie for the highest confidence
\* the one declared first is kept (every earlier matched intent has a
\* strictly lower confidence, no later one a higher).
C11_PrimaryIntentIsFirstMaximum ==
    (\E i \in 1..Len(analysis.scores) : analysis.scores[i].matches # << >>) =>
        \E i \in 1..Len(analysis.scores) :
            /\ analysis.scores[i].matches # << >>
            /\ analysis.primaryIntent = analysis.scores[i].type
            /\ analysis.primaryIntent = intentPatterns[i].type
            /\ FracEq(analysis.confidence, analysis.scores[i].confidence)
            /\ \A j \in 1..Len(analysis.scores) :
                /\ j < i /\ analysis.scores[j].matches # << >> =>
                    FracLess(analysis.scores[j].confidence, analysis.scores[i].confidence)
                /\ j > i => FracLeq(analysis.scores[j].confidence, analysis.scores[i].confidence)
C11_TwoIntentsTie ==
    /\ input = "incomplete todo 3"
    /\ analysis.originalText = input
    /\ analysis.primaryIntent = "complete"
    /\ \E i, j \in 1..Len(analysis.scores) :
        /\ i < j
        /\ analysis.scores[i].type = "complete"
        /\ analysis.scores[j].type = "incomplete"
        /\ analysis.scores[j].matches # << >>
        /\ FracEq(analysis.scores[i].confidence, analysis.scores[j].confidence)

C13_ShowMeAllMyTodos ==
    (input = "show me all my todos" /\ analysis.originalText = input) =>
        /\ analysis.primaryIntent = "view"
        /\ AboveThreshold(analysis.confidence)
        /\ analysis.entities.priorities = "medium"
        /\ analysis.entities.categories = None
        /\ generateFunctionCall(analysis) = Some("getAllTodos()")

\* C14: "add a todo to buy milk with high priority" is classified create
\* with priority high and payload "buy milk", and the synthesized call is
\* exactly createTodo("buy milk", "high"): two arguments, no category.
C14_AddATodoToBuyMilk ==
    (input = "add a todo to buy milk with high priority" /\ analysis.originalText = input) =>
        /\ analysis.primaryIntent = "create"
        /\ analysis.entities.priorities = "high"
        /\ analysis.entities.todoText = Some("buy milk")
        /\ generateFunctionCall(analysis) = Some("createTodo(\"buy milk\", \"high\")")

\* C15: for an utterance classified delete, no extracted number gives no
\* call; exactly one number n gives deleteTodoById(n); more than one gives
\* deleteTodosByIds([...]) with all the numbers in text order, which the
\* parser reads as a single list argument.  "delete todos 2, 3, 5" gives
\* deleteTodosByIds([2, 3, 5]) with the argument [2, 3, 5].
C15_DeleteByNumberCount ==
    /\ analysis.primaryIntent = "delete" /\ ~BelowThreshold(analysis.confidence) =>
        /\ Len(analysis.entities.numbers) = 0 => generateFunctionCall(analysis) = NoCall
        /\ Len(analysis.entities.numbers) = 1 =>
            /\ generateFunctionCall(analysis)
                = Some("deleteTodoById(" \o NumToStr(analysis.entities.numbers[1]) \o ")")
            /\ parseToolCall(generateFunctionCall(analysis)[1], ToolNames).calls
                = << [functionName |-> "deleteTodoById",
                      params |-> << Num(NumToStr(analysis.entities.numbers[1])) >>,
                      tool |-> Descriptor("deleteTodoById"), at |-> 1] >>
        /\ Len(analysis.entities.numbers) > 1 =>
            /\ generateFunctionCall(analysis) # NoCall
            /\ parseToolCall(generateFunctionCall(analysis)[1], ToolNames).calls
                = << [functionName |-> "deleteTodosByIds",
                      params |-> << List([k \in 1..Len(analysis.entities.numbers) |->
                                            Num(NumToStr(analysis.entities.numbers[k]))]) >>,
                      tool |-> Descriptor("deleteTodosByIds"), at |-> 1] >>
    /\ (input = "delete todos 2, 3, 5" /\ analysis.originalText = input) =>
        /\ analysis.primaryIntent = "delete"
        /\ analysis.entities.numbers = << 2, 3, 5 >>
        /\ generateFunctionCall(analysis) = Some("deleteTodosByIds([2, 3, 5])")
C15_ThreeNumbersDeleted ==
    /\ input = "delete todos 2, 3, 5"
    /\ stage = "direct"
    /\ Len(toolCalls) = 1
    /\ toolCalls[1].functionName = "deleteTodosByIds"
    /\ toolCalls[1].params = << List(<< Num("2"), Num("3"), Num("5") >>) >>
    /\ pc = "prompt"
    /\ Len(results) = 1

\* C16: in every createTodo call synthesized for a create intent the values
\* keep the slots of createTodo(text, priority, category): a second value,
\* when there is one, is a priority, and an extracted category is the third
\* value, also when the priority is the default medium.
C16_CreateArgumentsKeepSlots ==
    (analysis.primaryIntent = "create" /\ synthesizedCall(analysis) # NoCall) =>
        /\ synthesizedCall(analysis)[1].functionName = "createTodo"
        /\ Len(synthesizedCall(analysis)[1].params) >= 2 =>
            synthesizedCall(analysis)[1].params[2] \in { Str("high"), Str("medium"), Str("low") }
        /\ IsSet(analysis.entities.categories) =>
            /\ Len(synthesizedCall(analysis)[1].params) = 3
            /\ synthesizedCall(analysis)[1].params[3] = Str(analysis.entities.categories[1])

\* C17: for an utterance classified update with at least one number, the
\* parsed updateTodo call passes the first number as id, the payload (or
\* null) as 2nd argument, the non-medium priority (or null) as 3rd and the
\* category (or null) as 4th, whichever of the three are present; with no
\* number no call is synthesized.  An argument not passed is null in
\* updateTodo(id, newText = null, priority = null, category = null).
C17_UpdateArgumentsKeepSlots ==
    (analysis.primaryIntent = "update" /\ ~BelowThreshold(analysis.confidence)) =>
        IF analysis.entities.numbers = << >>
        THEN generateFunctionCall(analysis) = NoCall
        ELSE /\ generateFunctionCall(analysis) # NoCall
             /\ LET calls == parseToolCall(generateFunctionCall(analysis)[1], ToolNames).calls
                    arg(i) == IF i <= Len(calls[1].params) THEN calls[1].params[i] ELSE Null
                IN  /\ Len(calls) = 1
                    /\ calls[1].functionName = "updateTodo"
                    /\ Len(calls[1].params) <= 4
                    /\ arg(1) = Num(NumToStr(analysis.entities.numbers[1]))
                    /\ arg(2) = IF IsSet(analysis.entities.todoText)
                                THEN Str(analysis.entities.todoText[1]) ELSE Null
                    /\ arg(3) = IF analysis.entities.priorities # "medium"
                                THEN Str(analysis.entities.priorities) ELSE Null
                    /\ arg(4) = IF IsSet(analysis.entities.categories)
                                THEN Str(analysis.entities.categories[1]) ELSE Null

\* C18: for an utterance classified search, the search payload is the
\* trimmed first capture group of the search matcher that fired ("search
\* todos for milk" gives "milk"), and searchTodos("<payload>") is
\* synthesized: every utterance that matches a search matcher, the verb
\* "locate" included, gets a payload.
C18_SearchPayloadIsFirstCapture ==
    (analysis.primaryIntent = "search" /\ analysis.matches # << >>) =>
        /\ analysis.entities.searchTerms
            = Some(trim(rxGroup(analysis.normalizedText, analysis.matches[1].match, 1)))
        /\ generateFunctionCall(analysis)
            = Some("searchTodos("
                   \o Quoted(trim(rxGroup(analysis.normalizedText, analysis.matches[1].match, 1)))
                   \o ")")

\* C19: a list literal [1, 2, 3] among the arguments of a registered tool
\* parses to one argument, the ordered list of the three integers; and a
\* malformed list or structure literal does not make parseToolCall raise:
\* it returns a ParsedCall for the span all the same, with one scalar
\* argument per comma-separated token of the argument text.
C19_ListLiteralOrTokens ==
    (pc = "returned" /\ input # "") =>
        LET m == rxMatch(functionCallRegex, input, FALSE)
            functionName == rxGroup(input, m, 1)
            paramsStr == trim(rxGroup(input, m, 2))
            tokens == split(paramsStr, ",")
        IN  /\ input = "deleteTodosByIds([1, 2, 3])" =>
                toolCalls = << [functionName |-> "deleteTodosByIds",
                                params |-> << List(<< Num("1"), Num("2"), Num("3") >>) >>,
                                tool |-> Descriptor("deleteTodosByIds"), at |-> 1] >>
            /\ (/\ m.found
                /\ functionName \in ToolNames
                /\ UsesEval(paramsStr)
                /\ jsEval("[" \o paramsStr \o "]", ToolNames).threw) =>
                    /\ Len(toolCalls) = 1
                    /\ toolCalls[1].functionName = functionName
                    /\ Len(toolCalls[1].params) = Len(tokens)
                    /\ \A i \in 1..Len(tokens) :
                        toolCalls[1].params[i]
                            \in { Str(trim(tokens[i])), Str(slice1m1(trim(tokens[i]))),
                                  Num(ToNumber(trim(tokens[i])).v) }
C19_MalformedListTokenized ==
    /\ pc = "returned"
    /\ input = "createTodo([1,,2)"
    /\ Len(toolCalls) = 1
    /\ toolCalls[1].params = << Str("[1"), Num("0"), Num("2") >>

\* C20: when the literal parse of a bracketed argument list fails, the whole
\* list is coerced by the rules of an argument list without brackets: for
\* every token the fallback yields the value the normal path yields (quoted
\* tokens stripped, null, true and false as values, numbers as numbers,
\* empty tokens alike, anything else the trimmed text).
C20_FallbackCoercesAsNormalPath ==
    (pc = "returned" /\ input # "") =>
        LET m == rxMatch(functionCallRegex, input, FALSE)
            paramsStr == trim(rxGroup(input, m, 2))
        IN  (/\ m.found
             /\ rxGroup(input, m, 1) \in ToolNames
             /\ UsesEval(paramsStr)
             /\ jsEval("[" \o paramsStr \o "]", ToolNames).threw) =>
                /\ Len(toolCalls) = 1
                /\ toolCalls[1].params = coerceAll(paramParts(paramsStr))

\* C21: scalar coercion: the tokens 5, -1 and 3.5 parse to those numbers;
\* "buy milk" and 'buy milk' parse to the same string buy milk; and a token
\* that is not quoted, not null/true/false and not a base-10 integer or
\* float (0x10, 1e3, Infinity, abc) parses to its raw trimmed text.
C21_ScalarCoercion ==
    pc = "returned" =>
        /\ input = "createTodo(5, -1, 3.5, \"buy milk\", 'buy milk')" =>
            /\ Len(toolCalls) = 1
            /\ toolCalls[1].params
                = << Num("5"), Num("-1"), Num("3.5"), Str("buy milk"), Str("buy milk") >>
        /\ input = "createTodo(0x10, 1e3, Infinity, abc)" =>
            /\ Len(toolCalls) = 1
            /\ toolCalls[1].params
                = << Str("0x10"), Str("1e3"), Str("Infinity"), Str("abc") >>

\* C22: parseToolCall keeps nothing between calls: the same text parsed a
\* second time, whatever other texts were parsed in between, returns a
\* sequence of ParsedCalls equal to the first one.
C22_SameTextSameCalls ==
    (pc = "returned" /\ input # "" /\ results # << >>) => results[1] = toolCalls

\* C23: on each of the three dispatch paths (direct synthesis, simplified
\* recognizer, external model) a tool execution failure is reported to the
\* user together with the name of the operation that failed.
C23_FailureNamesOperation ==
    \A k \in 1..Len(output) :
        output[k].line = "error" => includes(output[k].text, output[k].functionName)

\* C24: when no stage yields a ParsedCall for an utterance, the user is
\* shown the external model's reply and, after it, the hint that lists
\* example commands, whatever the reply says (also a reply without "(").
C24_ReplyThenHint ==
    (aiResponse # << >> /\ toolCalls = << >>) =>
        \E k \in 1..Len(output) :
            /\ output[k].line = "ai"
            /\ output[k].text = aiResponse[1]
            /\ \E j \in (k + 1)..Len(output) : output[j].line = "hint"

\* C25: entities.numbers of an analysis is every maximal digit run of the
\* original text, in order, also a run that directly follows letters
\* ("todo5"); so an utterance classified Delete, Complete, Incomplete or
\* Update has a non-empty numbers list, and the first three yield a call.
C25_NumbersAreDigitRuns ==
    LET original == analysis.originalText
        runs == matchesToNumbers(original, rxAll(D1, original, 1, FALSE))
    IN  /\ analysis.entities.numbers = runs
        /\ analysis.primaryIntent \in {"delete", "complete", "incomplete", "update"}
               => analysis.entities.numbers # << >>
        /\ analysis.primaryIntent \in {"delete", "complete", "incomplete"}
               => generateFunctionCall(analysis) # NoCall

C27_IncompleteIsNotComplete ==
    \A i \in 1..Len(analysis.scores) :
        (/\ analysis.scores[i].type = "incomplete"
         /\ analysis.scores[i].matches # << >>
         /\ analysis.entities.numbers # << >>) =>
            /\ analysis.primaryIntent = "incomplete"
            /\ generateFunctionCall(analysis)
                 = << "markTodoIncomplete(" \o NumToStr(analysis.entities.numbers[1]) \o ")" >>

\* C28: when an utterance names the priority as "<level> priority", level
\* being high, medium or low, and holds no other priority synonym,
\* extractPriority returns that level; and what it returns is always one of
\* high, medium, low.
C28_NamedPriorityLevel ==
    /\ analysis.entities.priorities \in {"high", "medium", "low"}
    /\ \A level \in {"high", "medium", "low"} :
           includes(toLowerCase(analysis.originalText), level \o " priority")
               => analysis.entities.priorities = level

\* C29: an analysis either has no primary intent and confidence 0, or has a
\* primary intent and a confidence strictly above 0.3; none has a confidence
\* in (0, 0.3], so neither threshold gate suppresses a classified utterance.
C29_ClassifiedIsAboveThreshold ==
    /\ \/ analysis.primaryIntent = "null" /\ FracEq(analysis.confidence, Frac(0, 1))
       \/ analysis.primaryIntent # "null" /\ AboveThreshold(analysis.confidence)
    /\ analysis.primaryIntent # "null" =>
           /\ ~BelowThreshold(analysis.confidence)
           /\ generateFunctionCall(analysis) # NoCall
                  => directStage(analysis, regBefore).calls
                         = parseToolCall(generateFunctionCall(analysis)[1], regBefore).calls

\* a classified utterance whose match is a small part of it
C29_ClassifiedLongUtterance ==
    /\ input = "add a todo to buy milk with high priority"
    /\ analysis.originalText = input
    /\ analysis.primaryIntent = "create"
    /\ FracLess(analysis.confidence, Frac(6, 10))
    /\ stage = "direct"

\* C30: on the direct-synthesis path and on the simplified-recognizer path
\* exactly one tool is invoked for an utterance, the one the classifier or
\* the recognizer chose; no payload text, such as one holding
\* ") deleteTodoById(3)", makes a second or a different tool run.
C30_OneToolPerUtterance ==
    stage \in {"direct", "simple"} =>
        LET text == IF stage = "direct" THEN generateFunctionCall(analysis)[1]
                    ELSE handleSimpleCommands(input)[1]
        IN  /\ Len(toolCalls) = 1
            /\ toolCalls[1].at = 1
            /\ startsWith(text, toolCalls[1].functionName \o "(")
            /\ \A k \in 1..Len(trace) : trace[k].i = 1

====
